---- MODULE Spec2Model ----
(***************************************************************************)
(* A model of lilmail's conversation threading (utils/threading.go,        *)
(* ThreadBuilder.BuildThreads, reached through Client.FetchThreads in      *)
(* handlers/api/email.go), of its folder pagination and fetch operations   *)
(* (Client.FetchMessagesPaginated, FetchMessages, FetchMessagesByUIDs,     *)
(* models.NewPaginatedEmails), of Client.MoveMessage and DeleteMessage, of  *)
(* the folder requests of FolderHandler, of the multipart loop of          *)
(* processMessage, of cleanSubject and createPreview, of the channels of   *)
(* the fetch operations, of ThreadStorage, of MemoryCache and of           *)
(* NotificationHandler.  Each part has its own specification; the          *)
(* variables of the other parts stay at their initial values.              *)
(*                                                                         *)
(* Message identifiers are opaque tokens that the code only compares for   *)
(* equality and against the empty string.  They are modelled as numbers:   *)
(* EmptyId is "", 1..NumIds are Message-ID tokens, and NumIds + k is the   *)
(* UID of the k-th fetched message in string form.                         *)
(***************************************************************************)
EXTENDS Integers, Sequences, FiniteSets, TLC

VARIABLES
    pc,        \* position of the caller: which step of FetchThreads / BuildThreads is next
    emails,    \* the batch: a sequence of models.Email values
    done,      \* number of emails the loop of BuildThreads (step 1) has processed
    nodes,     \* the heap of ThreadContainer values, a node is its index
    idTable,   \* ThreadBuilder.idTable: identifier -> node
    history,   \* history of step 1: what each email and each link attempt found
    rootSet,   \* ThreadBuilder.rootSet
    threads,   \* the []*models.EmailThread built by groupThreads, then sorted
    served,    \* number of threading requests answered before the current one
    mailbox,   \* number of messages in the folder on the server (mbox.Messages)
    broken,    \* the messages of the folder that processMessage fails to decode
    call,      \* the arguments of the last call, when it was FetchMessagesPaginated
    paged,     \* what that call returned
    stream,    \* the last fetch operation: the messages streamed and the emails returned
    mpc,       \* position of MoveMessage: the protocol command it issues next
    moveCall,  \* the uid argument of MoveMessage and the folders as they were at the call
    source,    \* the UIDs of the messages in the source folder
    deleted,   \* those flagged \Deleted
    target,    \* the source UIDs of the copies in the target folder
    requests,  \* the protocol commands MoveMessage has issued, each with its outcome
    moveErr,   \* the error MoveMessage returned
    folders,   \* the names of the folders on the server
    reply,     \* the last folder request and what the FolderHandler answered
    parts,     \* the parts of the multipart message processMessage is reading
    nextPart,  \* the index of the part mr.NextPart() yields next
    body,      \* email.Body and email.HTML as set so far
    subject,   \* a Subject header, a sequence of characters
    cleaned,   \* what cleanSubject returned for it
    text,      \* email.Body, a sequence of bytes
    preview,   \* email.Preview as createPreview returned it
    files,     \* the thread files of ThreadStorage.dataDir, one thread per file name
    lastSave,  \* the last SaveThread call: its argument and the files before it
    listed,    \* the last GetThreadsByFolder call and what it returned
    fetchOp,   \* the fetch operation under way and the capacity of its messages channel
    toStream,  \* number of messages the server has still to stream
    messages,  \* the messages channel: its buffer and whether it is closed
    completion,\* the done channel (capacity 1)
    gpc,       \* position of the goroutine that runs c.client.Fetch / UidFetch
    cpc,       \* position of the caller of the fetch operation
    received,  \* number of messages the caller has taken from the channel
    items,     \* MemoryCache.items at the key: the entry in memory
    diskItem,  \* the file <diskPath>/<key>.cache
    wallClock, \* the clock, time.Now()
    mu,        \* MemoryCache.mu: who holds the write lock
    setLog,    \* the entries that the Set calls have made, in order
    spc,       \* position of the caller of Set
    getters,   \* the callers of Get: position, the entry read, and what the call returned
    subscribers,\* NotificationHandler.subscribers: user -> the subscribers in its map
    chans,     \* the messageChan of every subscriber: its state and the notifications buffered
    hmu,       \* NotificationHandler.mu: the writer and the readers that hold it
    conns,     \* the connections (HandleSSE / HandleWebSocket): position and user
    senders,   \* the callers of SendNotification: position, user and the channels still to visit
    panicked   \* a send on a closed channel has happened

threadVars == <<pc, emails, done, nodes, idTable, history, rootSet, threads, served>>

pageVars == <<mailbox, broken, call, paged, stream>>

moveVars == <<mpc, moveCall, source, deleted, target, requests, moveErr>>

folderVars == <<folders, reply>>

partVars == <<parts, nextPart, body>>

subjectVars == <<subject, cleaned>>

previewVars == <<text, preview>>

storeVars == <<files, lastSave, listed>>

streamVars == <<fetchOp, toStream, messages, completion, gpc, cpc, received>>

cacheVars == <<items, diskItem, wallClock, mu, setLog, spc, getters>>

notifyVars == <<subscribers, chans, hmu, conns, senders, panicked>>

vars == <<threadVars, pageVars, moveVars, folderVars, partVars, subjectVars, previewVars, storeVars, streamVars, cacheVars, notifyVars>>

----------------------------------------------------------------------------
(* Bounds of the model *)

NumIds == 3

MaxEmails == 2

MaxRefs == 2

MaxDate == 1

MaxClock == 2

MaxTotal == 5

MaxPage == 3

MaxPageSize == 3

MaxUid == 3

MaxParts == 3

MaxData == 2

MaxChunks == 3

MaxRequests == 1

MaxText == 7

MaxUuids == 1

MaxStream == 3

MaxCap == 2

MaxTime == 3

MaxTtl == 2

MaxSets == 2

\* the capacity of messageChan (10 in the program) is modelled at this length
ChanCap == 1

\* the 150 of createPreview is modelled at this length
PreviewLen == 4

\* uint32 arithmetic is modelled at this width
UintBits == 6

----------------------------------------------------------------------------
(* Values *)

EmptyId == 0

Nil == 0

Ids == 1..NumIds

\* time.Time values: 0 is the zero time
Dates == 0..MaxDate

\* min of threading.go
min(a, b) == IF a < b THEN a ELSE b

\* the IMAP flags of the model
SeenFlag == "\\Seen"

FlagSets == SUBSET {SeenFlag, "\\Flagged"}

\* the fields of models.Email that threading reads; ID is the UID in string
\* form.  This one has an empty Subject, no flag and no attachment.
Email(uid, mid, irt, refs, date) ==
    [ID |-> uid, MessageID |-> mid, InReplyTo |-> irt, References |-> refs, Date |-> date,
     Subject |-> <<>>, Flags |-> {}, HasAttachments |-> FALSE]

\* Tokens are opaque, so batches are enumerated up to renaming: reading a
\* batch in order (MessageID, InReplyTo, References of each email), the first
\* occurrence of a new token takes the smallest identifier not used before it.
\* Usable(u) are the tokens that may come next when u tokens are in use.
Usable(u) == 1..min(u + 1, NumIds)

Used(u, t) == IF t > u THEN t ELSE u

\* the reference lists of length n that may follow u used tokens, each with
\* the number of tokens in use after it
RECURSIVE RefsFrom(_, _)
RefsFrom(u, n) ==
    IF n = 0 THEN {[refs |-> <<>>, used |-> u]}
    ELSE UNION {{[refs |-> <<t>> \o r.refs, used |-> r.used] : r \in RefsFrom(Used(u, t), n - 1)}
                : t \in Usable(u)}

\* the emails with UID token uid that may follow u used tokens
EmailsFrom(u, uid) ==
    UNION {UNION {UNION {UNION {
        {[email |-> Email(uid, mid, irt, r.refs, d), used |-> r.used] : d \in Dates}
        : r \in RefsFrom(Used(Used(u, mid), irt), n)}
        : n \in 0..MaxRefs}
        : irt \in {EmptyId} \cup Usable(Used(u, mid))}
        : mid \in {EmptyId} \cup Usable(u)}

\* the number of tokens in use in a batch
TokensUsed(es) ==
    LET toks == UNION {{es[k].MessageID, es[k].InReplyTo}
                       \cup {es[k].References[j] : j \in 1..Len(es[k].References)}
                       : k \in 1..Len(es)}
    IN  IF toks = {} THEN 0 ELSE CHOOSE t \in toks : \A o \in toks : o <= t

----------------------------------------------------------------------------
(* Client.FetchThreads: the threading fields it fills in before BuildThreads *)

\* a bug to detect: no fallback to the UID
ensureThreadingFieldsNoFallback(email) ==
    IF email.InReplyTo = EmptyId /\ Len(email.References) > 0
    THEN [email EXCEPT !.InReplyTo = email.References[Len(email.References)]]
    ELSE email

\* email.MessageID = email.ID when it is empty; email.InReplyTo = the last
\* reference when it is empty and there are references
ensureThreadingFields(email) ==
    LET withId == IF email.MessageID = EmptyId
                  THEN [email EXCEPT !.MessageID = email.ID]
                  ELSE email
    IN  IF withId.InReplyTo = EmptyId /\ Len(withId.References) > 0
        THEN [withId EXCEPT !.InReplyTo = withId.References[Len(withId.References)]]
        ELSE withId

----------------------------------------------------------------------------
(* ThreadBuilder, step 1: containers and links *)

\* &ThreadContainer{}
NewContainer == [Message |-> Nil, Parent |-> Nil, Children |-> <<>>]

\* NewThreadBuilder: an empty identifier table, an empty root set, no
\* container allocated
NewThreadBuilder == [nodes |-> <<>>, idTable |-> <<>>, history |-> <<>>, rootSet |-> <<>>]

\* a bug to detect: the builder of the request before is used again
threadBuilderReused(old) == old

\* threadBuilder := utils.NewThreadBuilder() of FetchThreads: the builder a
\* threading request works on, whatever the one before (old) holds
threadBuilder(old) == NewThreadBuilder

\* getContainer: the empty identifier gets a fresh container that is not
\* entered in the table; any other identifier gets its container, created
\* and entered on first use.
getContainer(tb, messageID) ==
    LET fresh == Len(tb.nodes) + 1 IN
    IF messageID = EmptyId
    THEN [tb |-> [tb EXCEPT !.nodes = Append(@, NewContainer)], c |-> fresh]
    ELSE IF messageID \in DOMAIN tb.idTable
    THEN [tb |-> tb, c |-> tb.idTable[messageID]]
    ELSE [tb |-> [tb EXCEPT !.nodes = Append(@, NewContainer),
                            !.idTable = @ @@ (messageID :> fresh)],
          c |-> fresh]

\* a bug to detect: the guard without child.Parent == nil (the last writer wins)
canLinkLastWins(tb, parent, child) ==
    parent # child

\* the guard of both link sites: parent != child && child.Parent == nil
canLink(tb, parent, child) ==
    parent # child /\ tb.nodes[child].Parent = Nil

\* child.Parent = parent; parent.Children = append(parent.Children, child),
\* under the guard.  The attempt is recorded in the history with the place it
\* comes from (at) and whether the child had a parent at that moment.
link(tb, parent, child, at) ==
    LET rec == [op |-> "link", at |-> at, parent |-> parent, child |-> child,
                hadParent |-> tb.nodes[child].Parent # Nil]
        logged == [tb EXCEPT !.history = Append(@, rec)]
    IN  IF canLink(tb, parent, child)
        THEN [logged EXCEPT !.nodes[child].Parent = parent,
                            !.nodes[parent].Children = Append(@, child)]
        ELSE logged

\* a bug to detect: the next reference taken at the same index
nextRefSame(i, len) == min(i, len)

\* the index of the "next" reference, References[min(i+1, len-1)]; 1-based here
nextRef(i, len) == min(i + 1, len)

\* the loop over the References of the k-th email, from position i on
RECURSIVE linkReferences(_, _, _, _)
linkReferences(tb, es, k, i) ==
    LET refs == es[k].References IN
    IF i > Len(refs) THEN tb
    ELSE LET pid == refs[i]
             cid == refs[nextRef(i, Len(refs))]
             p == getContainer(tb, pid)
             c == getContainer(p.tb, cid)
             at == [site |-> "References", email |-> k, i |-> i, pid |-> pid, cid |-> cid]
         IN  linkReferences(link(c.tb, p.c, c.c, at), es, k, i + 1)

\* a bug to detect: the In-Reply-To link made only to a message seen before
linkInReplyToSeen(tb, es, k) ==
    IF es[k].InReplyTo # EmptyId /\ es[k].InReplyTo \in DOMAIN tb.idTable
    THEN LET p == getContainer(tb, es[k].InReplyTo)
             c == getContainer(p.tb, es[k].MessageID)
             at == [site |-> "InReplyTo", email |-> k, i |-> 0,
                    pid |-> es[k].InReplyTo, cid |-> es[k].MessageID]
         IN  link(c.tb, p.c, c.c, at)
    ELSE tb

\* a bug to detect: the In-Reply-To link made the wrong way round
linkInReplyToSwapped(tb, es, k) ==
    IF es[k].InReplyTo # EmptyId
    THEN LET p == getContainer(tb, es[k].InReplyTo)
             c == getContainer(p.tb, es[k].MessageID)
             at == [site |-> "InReplyTo", email |-> k, i |-> 0,
                    pid |-> es[k].InReplyTo, cid |-> es[k].MessageID]
         IN  link(c.tb, c.c, p.c, at)
    ELSE tb

\* the In-Reply-To link of the k-th email
linkInReplyTo(tb, es, k) ==
    IF es[k].InReplyTo # EmptyId
    THEN LET p == getContainer(tb, es[k].InReplyTo)
             c == getContainer(p.tb, es[k].MessageID)
             at == [site |-> "InReplyTo", email |-> k, i |-> 0,
                    pid |-> es[k].InReplyTo, cid |-> es[k].MessageID]
         IN  link(c.tb, p.c, c.c, at)
    ELSE tb

\* one iteration of the loop of step 1, for the k-th email of the batch; the
\* history records the email's container and whether it had a parent already
processEmail(tb, es, k) ==
    LET g == getContainer(tb, es[k].MessageID)
        rec == [op |-> "email", email |-> k, node |-> g.c,
                hadParent |-> g.tb.nodes[g.c].Parent # Nil]
        withMsg == [g.tb EXCEPT !.nodes[g.c].Message = k, !.history = Append(@, rec)]
    IN  linkInReplyTo(linkReferences(withMsg, es, k, 1), es, k)

\* step 1 of BuildThreads on a whole batch, emails 1..n, from a new builder
RECURSIVE step1(_, _)
step1(es, n) ==
    IF n = 0 THEN NewThreadBuilder ELSE processEmail(step1(es, n - 1), es, n)

----------------------------------------------------------------------------
(* cleanSubject; a string is a sequence of characters *)

\* strings.TrimSpace on the characters of the model, where " " is the only
\* white space
RECURSIVE TrimSpace(_)
TrimSpace(str) ==
    IF str = <<>> THEN str
    ELSE IF Head(str) = " " THEN TrimSpace(Tail(str))
    ELSE IF str[Len(str)] = " " THEN TrimSpace(SubSeq(str, 1, Len(str) - 1))
    ELSE str

\* strings.HasPrefix
HasPrefix(str, prefix) ==
    Len(str) >= Len(prefix) /\ SubSeq(str, 1, Len(prefix)) = prefix

\* prefixes of cleanSubject: "Re:", "RE:", "Fwd:", "FWD:", "Fw:"
prefixes ==
    <<<<"R", "e", ":">>, <<"R", "E", ":">>, <<"F", "w", "d", ":">>,
      <<"F", "W", "D", ":">>, <<"F", "w", ":">>>>

\* the loop of cleanSubject on a trimmed subject: the first prefix of the
\* list that the subject starts with is cut off and the rest trimmed, until
\* no prefix of the list matches
RECURSIVE cleanLoop(_)
cleanLoop(str) ==
    LET matching == {i \in DOMAIN prefixes : HasPrefix(str, prefixes[i])}
        first == CHOOSE i \in matching : \A j \in matching : i <= j
    IN  IF matching = {} THEN str
        ELSE cleanLoop(TrimSpace(SubSeq(str, Len(prefixes[first]) + 1, Len(str))))

\* cleanSubject
cleanSubject(str) == cleanLoop(TrimSpace(str))

\* a subject that was not cleaned
NotCleaned == [done |-> FALSE, subject |-> <<>>]

SubjectIdle ==
    /\ subject = <<>>
    /\ cleaned = NotCleaned

----------------------------------------------------------------------------
(* ThreadBuilder, steps 2 to 4: roots, threads, order *)

\* the containers of the identifier table that have no parent
rootContainers(ns, table) ==
    {table[id] : id \in {x \in DOMAIN table : ns[table[x]].Parent = Nil}}

\* the orders in which `range` over a Go map may visit the elements of S
Orderings(S) ==
    {f \in [1..Cardinality(S) -> S] : \A i, j \in DOMAIN f : i # j => f[i] # f[j]}

\* collectMessages: the container's own message, then its children's, in order
RECURSIVE collectMessages(_, _, _)
RECURSIVE collectChildren(_, _, _, _)
collectMessages(ns, es, container) ==
    (IF ns[container].Message # Nil THEN <<es[ns[container].Message]>> ELSE <<>>)
        \o collectChildren(ns, es, ns[container].Children, 1)

collectChildren(ns, es, children, i) ==
    IF i > Len(children) THEN <<>>
    ELSE collectMessages(ns, es, children[i]) \o collectChildren(ns, es, children, i + 1)

\* time.Now().Format("20060102150405"): a token of its own kind, one per second
TimeId(now) == 0 - now

\* a bug to detect: the identifier always taken from the clock
generateThreadIDFromClock(ns, es, root, now) == TimeId(now)

\* generateThreadID
generateThreadID(ns, es, root, now) ==
    IF ns[root].Message # Nil /\ es[ns[root].Message].MessageID # EmptyId
    THEN es[ns[root].Message].MessageID
    ELSE TimeId(now)

\* Date.After
After(a, b) == a > b

\* a bug to detect: the date of the first message taken as the latest
latestDateFirst(msgs, i, last) ==
    IF i > Len(msgs) THEN last ELSE msgs[i].Date

\* the loop that finds the latest date, from the zero time
RECURSIVE latestDate(_, _, _)
latestDate(msgs, i, last) ==
    IF i > Len(msgs) THEN last
    ELSE latestDate(msgs, i + 1, IF After(msgs[i].Date, last) THEN msgs[i].Date ELSE last)

\* a bug to detect: a thread kept although no message was collected
keepThreadAlways(root, msgs) == TRUE

\* the two `continue` tests of groupThreads: a root without message and
\* children is skipped, and so is a thread that collected no message
keepThread(root, msgs) ==
    /\ ~(root.Message = Nil /\ Len(root.Children) = 0)
    /\ Len(msgs) # 0

\* hasFlag
hasFlag(flags, flag) == \E f \in flags : f = flag

\* a bug to detect: only the first message is looked at
anyUnreadFirst(msgs) == msgs # <<>> /\ ~hasFlag(msgs[1].Flags, SeenFlag)

\* the loop that sets thread.Unread: some message is without \Seen
anyUnread(msgs) == \E j \in DOMAIN msgs : ~hasFlag(msgs[j].Flags, SeenFlag)

\* the loop that sets thread.HasAttachment
anyAttachment(msgs) == \E j \in DOMAIN msgs : msgs[j].HasAttachments

\* the thread groupThreads builds for one root, at time now
newThread(ns, es, root, now) ==
    LET msgs == collectMessages(ns, es, root)
    IN  [ID |-> generateThreadID(ns, es, root, now),
         Messages |-> msgs,
         MessageCount |-> Len(msgs),
         Subject |-> IF msgs = <<>> THEN <<>> ELSE cleanSubject(msgs[1].Subject),
         LastDate |-> latestDate(msgs, 1, 0),
         Unread |-> anyUnread(msgs),
         HasAttachment |-> anyAttachment(msgs)]

\* groupThreads: the loop over rootSet from position i on; clock[i] is the
\* time at which root i is visited
RECURSIVE groupThreads(_, _, _, _, _)
groupThreads(ns, es, roots, clock, i) ==
    IF i > Len(roots) THEN <<>>
    ELSE LET t == newThread(ns, es, roots[i], clock[i])
         IN  (IF keepThread(ns[roots[i]], t.Messages) THEN <<t>> ELSE <<>>)
                 \o groupThreads(ns, es, roots, clock, i + 1)

\* the readings of a clock that does not run backwards, one per root
Clocks(n) ==
    {c \in [1..n -> 1..MaxClock] : \A i \in 1..(n - 1) : c[i] <= c[i + 1]}

\* a bug to detect: the oldest thread first
lessOldest(a, b) == After(b.LastDate, a.LastDate)

\* the less function of step 4: threads[i].LastDate.After(threads[j].LastDate)
less(a, b) == After(a.LastDate, b.LastDate)

\* sort.Slice: some permutation of ts in which no element is less than one
\* before it (the sort is not stable)
sortSlice(ts) ==
    {[k \in 1..Len(ts) |-> ts[p[k]]] :
        p \in {q \in Orderings(1..Len(ts)) :
                  \A i, j \in 1..Len(ts) : i < j => ~less(ts[q[j]], ts[q[i]])}}

----------------------------------------------------------------------------
(* Pagination: models.NewPaginatedEmails and Client.FetchMessagesPaginated *)

UintMod == 2 ^ UintBits

UintMax == UintMod - 1

add32(a, b) == (a + b) % UintMod

sub32(a, b) == (a - b + UintMod) % UintMod

mul32(a, b) == (a * b) % UintMod

\* the page count of both functions: (total + pageSize - 1) / pageSize
pageCount(total, pageSize) == sub32(add32(total, pageSize), 1) \div pageSize

\* NewPaginatedEmails
NewPaginatedEmails(es, page, pageSize, totalEmails) ==
    LET totalPages == IF pageCount(totalEmails, pageSize) = 0
                      THEN 1 ELSE pageCount(totalEmails, pageSize)
    IN  [Emails |-> es, Page |-> page, PageSize |-> pageSize,
         TotalPages |-> totalPages, TotalEmails |-> totalEmails,
         HasNext |-> page < totalPages, HasPrev |-> page > 1]

\* the page number after "Validate page number"
validPage(page, totalPages) ==
    LET atLeastOne == IF page < 1 THEN 1 ELSE page
    IN  IF atLeastOne > totalPages THEN totalPages ELSE atLeastOne

\* the sequence range of a page: end, then start, start raised to 1 when below
pageRange(total, page, pageSize) ==
    LET end == sub32(total, mul32(sub32(page, 1), pageSize))
        start == add32(sub32(end, pageSize), 1)
    IN  [start |-> IF start < 1 THEN 1 ELSE start, end |-> end]

\* the messages the server streams for seqSet.AddRange(start, end): those of
\* the folder whose sequence number lies in the range, in ascending order.
\* AddRange puts the two ends in order, and 0 stands for the last message.
fetchRange(total, start, end) ==
    LET a == IF start = 0 THEN total ELSE start
        b == IF end = 0 THEN total ELSE end
        lo == min(a, b)
        hi == IF a < b THEN b ELSE a
        n == Cardinality({q \in 1..total : lo <= q /\ q <= hi})
    IN  [k \in 1..n |-> lo + k - 1]

\* a bug to detect: one message that fails to decode empties the result
decodeOrNothing(msgs, failed) ==
    IF \E i \in DOMAIN msgs : msgs[i] \in failed THEN <<>> ELSE msgs

\* the loop over the streamed messages: one that fails to decode is skipped
RECURSIVE decodeAll(_, _)
decodeAll(msgs, failed) ==
    IF msgs = <<>> THEN <<>>
    ELSE (IF msgs[1] \in failed THEN <<>> ELSE <<msgs[1]>>) \o decodeAll(Tail(msgs), failed)

\* the loop that reverses the emails
reverse(q) == [k \in 1..Len(q) |-> q[Len(q) + 1 - k]]

\* what stands for the nil *PaginatedEmails of an error return
NoPage ==
    [Emails |-> <<>>, Page |-> 0, PageSize |-> 0, TotalPages |-> 0, TotalEmails |-> 0,
     HasNext |-> FALSE, HasPrev |-> FALSE]

\* no sequence range was requested
NoRange == [start |-> 0, end |-> 0]

\* before the first call
NoCall == [made |-> FALSE, page |-> 0, pageSize |-> 0]

NoReturn == [err |-> "no call", range |-> NoRange, page |-> NoPage]

\* FetchMessagesPaginated on a folder of total messages; selectOK and fetchOK
\* say whether the two protocol commands succeed, failed are the sequence
\* numbers of the messages that do not decode.  A message is modelled by its
\* sequence number.
FetchMessagesPaginated(total, page, pageSize, selectOK, fetchOK, failed) ==
    IF ~selectOK THEN [err |-> "select", range |-> NoRange, page |-> NoPage]
    ELSE IF total = 0
    THEN [err |-> "none", range |-> NoRange,
          page |-> NewPaginatedEmails(<<>>, page, pageSize, 0)]
    ELSE LET valid == validPage(page, pageCount(total, pageSize))
             r == pageRange(total, valid, pageSize)
             got == decodeAll(fetchRange(total, r.start, r.end), failed)
         IN  IF ~fetchOK THEN [err |-> "fetch", range |-> r, page |-> NoPage]
             ELSE [err |-> "none", range |-> r,
                   page |-> NewPaginatedEmails(reverse(got), valid, pageSize, total)]

\* FetchMessages: the last limit messages of the folder, in the order streamed.
\* A fetch error is returned together with the emails decoded so far.
FetchMessages(total, limit, selectOK, fetchOK, failed) ==
    IF ~selectOK THEN [err |-> "select", msgs |-> <<>>, emails |-> <<>>]
    ELSE IF total = 0 THEN [err |-> "none", msgs |-> <<>>, emails |-> <<>>]
    ELSE LET from == IF total > limit THEN add32(sub32(total, limit), 1) ELSE 1
             msgs == fetchRange(total, from, total)
         IN  [err |-> IF fetchOK THEN "none" ELSE "fetch",
              msgs |-> msgs, emails |-> decodeAll(msgs, failed)]

\* the messages the server streams for a UID set: those of the folder whose
\* UID is in the set, each once, in ascending order.  The UIDs of a folder of
\* total messages are 1..total here.
uidFetch(total, uids) ==
    LET have == {u \in uids : u \in 1..total}
    IN  [k \in 1..Cardinality(have) |->
            CHOOSE u \in have : Cardinality({v \in have : v < u}) = k - 1]

\* FetchMessagesByUIDs
FetchMessagesByUIDs(total, uids, selectOK, fetchOK, failed) ==
    IF uids = {} THEN [err |-> "none", msgs |-> <<>>, emails |-> <<>>]
    ELSE IF ~selectOK THEN [err |-> "select", msgs |-> <<>>, emails |-> <<>>]
    ELSE LET msgs == uidFetch(total, uids)
         IN  IF ~fetchOK THEN [err |-> "fetch", msgs |-> msgs, emails |-> <<>>]
             ELSE [err |-> "none", msgs |-> msgs, emails |-> decodeAll(msgs, failed)]

\* before the first fetch
NoStream == [op |-> "none", err |-> "no call", msgs |-> <<>>, emails |-> <<>>]

----------------------------------------------------------------------------
(* Client.MoveMessage and the folders it acts on *)

\* parseUID: the uid strings are modelled by the number they hold, 0 standing
\* for a string that holds no number
parseUID(uid) == [uidNum |-> uid, err |-> uid = 0]

\* a bug to detect: the error of a command is not checked
afterStepUnchecked(step, ok) ==
    CASE step = "SELECT" -> "UID COPY"
      [] step = "UID COPY" -> "UID STORE"
      [] step = "UID STORE" -> "EXPUNGE"
      [] step = "EXPUNGE" -> "returned"

\* the position of MoveMessage after a command: it returns on an error and
\* goes on to the next command otherwise
afterStep(step, ok) ==
    IF ~ok THEN "returned"
    ELSE CASE step = "SELECT" -> "UID COPY"
           [] step = "UID COPY" -> "UID STORE"
           [] step = "UID STORE" -> "EXPUNGE"
           [] step = "EXPUNGE" -> "returned"

\* the error MoveMessage returns when a command fails
stepError(step) ==
    CASE step = "SELECT" -> "error selecting source folder"
      [] step = "UID COPY" -> "error copying message"
      [] step = "UID STORE" -> "error marking message as deleted"
      [] step = "EXPUNGE" -> "error expunging mailbox"

\* the positions of DeleteMessage, by the command it issues next
deletePosition(step) ==
    CASE step = "SELECT" -> "delete: SELECT"
      [] step = "UID STORE" -> "delete: UID STORE"
      [] step = "EXPUNGE" -> "delete: EXPUNGE"
      [] step = "returned" -> "returned"

\* the position of DeleteMessage after a command: it returns on an error and
\* goes on to the next command otherwise
afterDeleteStep(step, ok) ==
    IF ~ok THEN "returned"
    ELSE CASE step = "SELECT" -> "UID STORE"
           [] step = "UID STORE" -> "EXPUNGE"
           [] step = "EXPUNGE" -> "returned"

\* the error DeleteMessage returns when a command fails
deleteError(step) ==
    CASE step = "SELECT" -> "error selecting folder"
      [] step = "UID STORE" -> "error marking message as deleted"
      [] step = "EXPUNGE" -> "error expunging mailbox"

\* no move has been called
NoMove == [uid |-> 0, source |-> {}, deleted |-> {}]

MoveIdle ==
    /\ mpc = "idle"
    /\ moveCall = NoMove
    /\ source = {}
    /\ deleted = {}
    /\ target = {}
    /\ requests = <<>>
    /\ moveErr = "no call"

----------------------------------------------------------------------------
(* FolderHandler.DeleteFolder and FolderHandler.RenameFolder *)

\* a bug to detect: a system folder missing from the list
systemFoldersShort == {"INBOX", "Sent", "Drafts", "Trash"}

\* systemFolders of both handlers
systemFolders == {"INBOX", "Sent", "Drafts", "Trash", "Spam"}

\* the loop over systemFolders: the name is compared as it is
isSystemFolder(name) == \E sf \in systemFolders : name = sf

\* an answer of the handler: the HTTP status and error, the sessions opened
\* (NewClient that succeeded), the protocol commands sent, and the folders on
\* the server afterwards
Answer(status, error, sessions, sent, fs) ==
    [status |-> status, error |-> error, sessions |-> sessions, sent |-> sent, folders |-> fs]

\* the handler from GetCredentials on: fault is the step that fails, if any;
\* command is the protocol command, accepted says whether the server accepts
\* it, and after are the folders when it does
withSession(fs, fault, command, accepted, after, failure) ==
    IF fault = "credentials" THEN Answer(401, "Invalid session", 0, <<>>, fs)
    ELSE IF fault = "connect"
    THEN Answer(500, "Failed to connect to email server", 0, <<"LOGIN">>, fs)
    ELSE IF fault = "server" \/ ~accepted
    THEN Answer(500, failure, 1, <<"LOGIN", command, "LOGOUT">>, fs)
    ELSE Answer(200, "", 1, <<"LOGIN", command, "LOGOUT">>, after)

\* FolderHandler.DeleteFolder
DeleteFolder(fs, folderName, fault) ==
    IF folderName = "" THEN Answer(400, "Folder name is required", 0, <<>>, fs)
    ELSE IF isSystemFolder(folderName)
    THEN Answer(400, "Cannot delete system folder", 0, <<>>, fs)
    ELSE withSession(fs, fault, "DELETE", folderName \in fs, fs \ {folderName},
                     "Failed to delete folder")

\* FolderHandler.RenameFolder
RenameFolder(fs, oldName, newName, fault) ==
    IF fault = "body" THEN Answer(400, "Invalid request", 0, <<>>, fs)
    ELSE IF oldName = "" \/ newName = ""
    THEN Answer(400, "Both old name and new name are required", 0, <<>>, fs)
    ELSE IF isSystemFolder(oldName)
    THEN Answer(400, "Cannot rename system folder", 0, <<>>, fs)
    ELSE withSession(fs, fault, "RENAME", oldName \in fs /\ newName \notin fs,
                     (fs \ {oldName}) \cup {newName}, "Failed to rename folder")

\* no folder request was made
NoReply ==
    [op |-> "none", name |-> "", newName |-> "", changed |-> FALSE,
     answer |-> Answer(0, "", 0, <<>>, {})]

FolderIdle ==
    /\ folders = {}
    /\ reply = NoReply

----------------------------------------------------------------------------
(* Client.processMessage: the parts of a multipart message *)

\* the Content-Type headers of the parts in the model; none of them contains
\* another, so strings.Contains(partType, t) is equality on them
PartTypes == {"text/plain", "text/html", "image/png"}

\* the content of a part is a token 1..MaxData, 0 is the empty string
NoData == 0

\* utils.SanitizeHTML of a part's content: a value of its own kind
SanitizeHTML(data) == [sanitized |-> data]

\* email.Body and email.HTML of a new models.Email
NoBody == [Body |-> NoData, HTML |-> SanitizeHTML(NoData)]

\* one iteration of the loop over the parts: a part that cannot be read is
\* skipped, a text/plain part sets Body, a text/html part sets HTML
readPart(b, part) ==
    IF ~part.readable THEN b
    ELSE IF part.type = "text/plain" THEN [b EXCEPT !.Body = part.data]
    ELSE IF part.type = "text/html" THEN [b EXCEPT !.HTML = SanitizeHTML(part.data)]
    ELSE b

PartsIdle ==
    /\ parts = <<>>
    /\ nextPart = 1
    /\ body = NoBody

----------------------------------------------------------------------------
(* createPreview; a string is a sequence of bytes *)

\* the characters of the model in UTF-8: a space, a letter of one byte and a
\* letter of two bytes
Characters == {<<" ">>, <<"a">>, <<"c3", "a9">>}

\* the number of bytes at the start of str that are no white space
RECURSIVE wordLen(_)
wordLen(str) ==
    IF str = <<>> \/ Head(str) = " " THEN 0 ELSE 1 + wordLen(Tail(str))

\* strings.Fields: the words between runs of white space
RECURSIVE Fields(_)
Fields(str) ==
    IF str = <<>> THEN <<>>
    ELSE IF Head(str) = " " THEN Fields(Tail(str))
    ELSE <<SubSeq(str, 1, wordLen(str))>> \o Fields(SubSeq(str, wordLen(str) + 1, Len(str)))

\* strings.Join
RECURSIVE Join(_, _)
Join(elems, sep) ==
    IF elems = <<>> THEN <<>>
    ELSE IF Len(elems) = 1 THEN elems[1]
    ELSE elems[1] \o sep \o Join(Tail(elems), sep)

\* strings.LastIndex for a separator of one byte: the index, counted from 0,
\* of its last occurrence, -1 when there is none
LastIndex(str, sep) ==
    LET at == {i \in DOMAIN str : str[i] = sep}
    IN  IF at = {} THEN 0 - 1 ELSE (CHOOSE i \in at : \A j \in at : j <= i) - 1

Ellipsis == <<".", ".", ".">>

\* createPreview; len(text) and text[:n] count bytes
createPreview(str) ==
    LET normalized == Join(Fields(str), <<" ">>)
        idx == LastIndex(SubSeq(normalized, 1, PreviewLen), " ")
    IN  IF Len(normalized) > PreviewLen
        THEN IF idx > 0
             THEN SubSeq(normalized, 1, idx) \o Ellipsis
             ELSE SubSeq(normalized, 1, PreviewLen) \o Ellipsis
        ELSE normalized

\* no preview was made
NoPreview == [done |-> FALSE, text |-> <<>>]

PreviewIdle ==
    /\ text = <<>>
    /\ preview = NoPreview

\* no threading request is under way
ThreadIdle ==
    /\ pc = "idle"
    /\ emails = <<>>
    /\ done = 0
    /\ nodes = <<>>
    /\ idTable = <<>>
    /\ history = <<>>
    /\ rootSet = <<>>
    /\ threads = <<>>
    /\ served = 0

\* no fetch operation was called
PageIdle ==
    /\ mailbox = 0
    /\ broken = {}
    /\ call = NoCall
    /\ paged = NoReturn
    /\ stream = NoStream

----------------------------------------------------------------------------
(* ThreadStorage: one file <thread.ID>.json per thread *)

\* the users and folders whose threads are cached
UserIDs == {"alice", "bob"}

CachedFolders == {"INBOX", "Archive"}

\* what the handlers store of a thread: t.UserID = userID; t.Folder = folderName
StoredThread(id, userID, folder) == [ID |-> id, UserID |-> userID, Folder |-> folder]

\* the files that SaveThread named itself
uuidFiles(fs) == {t \in fs : t.ID > NumIds}

\* uuid.New().String(): an identifier that no file carries
NewUuid(fs) == NumIds + 1 + Cardinality(uuidFiles(fs))

\* saveThread: os.WriteFile(<dataDir>/<thread.ID>.json), which replaces the
\* file of that name
saveThread(fs, thread) == {t \in fs : t.ID # thread.ID} \cup {thread}

\* SaveThread: a thread without ID gets a new one, then saveThread (the
\* time stamps are left out)
SaveThread(fs, thread) ==
    saveThread(fs, IF thread.ID = EmptyId THEN [thread EXCEPT !.ID = NewUuid(fs)] ELSE thread)

\* GetThreadsByFolder: the stored threads with that UserID and Folder
GetThreadsByFolder(fs, userID, folder) ==
    {t \in fs : t.UserID = userID /\ t.Folder = folder}

NoSave == [made |-> FALSE, thread |-> StoredThread(EmptyId, "", ""), before |-> {}]

NoListing == [made |-> FALSE, userID |-> "", folder |-> "", threads |-> {}]

StorageIdle ==
    /\ files = {}
    /\ lastSave = NoSave
    /\ listed = NoListing

----------------------------------------------------------------------------
(* The fetch operations: the messages channel and the done channel *)

FetchOps == {"FetchMessages", "FetchMessagesPaginated", "FetchMessagesByUIDs",
             "FetchSingleMessage"}

\* make(chan *imap.Message, n): n is limit, pageSize or len(uids), each at
\* least 1 where the channel is made, and 1 in FetchSingleMessage
Capacities(op) == IF op = "FetchSingleMessage" THEN {1} ELSE 1..MaxCap

\* the loop over the channel: FetchSingleMessage leaves it with `break`
\* after the first message, the other operations go on to the next message
afterMessage(op) == IF op = "FetchSingleMessage" THEN "done" ELSE "range"

NoFetch == [op |-> "none", cap |-> 0]

StreamIdle ==
    /\ fetchOp = NoFetch
    /\ toStream = 0
    /\ messages = [buf |-> <<>>, closed |-> FALSE]
    /\ completion = <<>>
    /\ gpc = "idle"
    /\ cpc = "idle"
    /\ received = 0

----------------------------------------------------------------------------
(* MemoryCache: one key, in memory and on disk *)

\* no entry under the key (in the map, or no file)
NoItem == [Value |-> 0, Expiration |-> 0 - 1]

\* the result of Get when it returns nil, false
Miss == 0

\* the goroutines that call Get
Getters == {"g1", "g2"}

\* &CacheItem{Value: value, Expiration: time.Now().Add(ttl)}
CacheItem(value, ttl, time) == [Value |-> value, Expiration |-> time + ttl]

\* time.Now().After(item.Expiration)
expired(item, time) == time > item.Expiration

\* a caller of Get that is not in a call
NoGet == [pc |-> "idle", item |-> NoItem, after |-> 0, result |-> Miss, at |-> 0, sets |-> 0]

CacheIdle ==
    /\ items = NoItem
    /\ diskItem = NoItem
    /\ wallClock = 0
    /\ mu = "free"
    /\ setLog = <<>>
    /\ spc = "idle"
    /\ getters = [g \in Getters |-> NoGet]

----------------------------------------------------------------------------
(* NotificationHandler: subscribers, their channels and the lock *)

\* the users (c.Locals("username"))
NotifyUsers == {"alice", "bob"}

\* the connections; each gets its own subscriberID and messageChan
Subscribers == {"s1", "s2"}

\* the goroutines that call SendNotification
Senders == {"n1", "n2"}

\* a bug to detect: the write lock taken while readers hold the lock
canLockIgnoringReaders(m) == m.writer = "free"

\* h.mu.Lock() goes through: no writer and no reader holds the lock
canLock(m) == m.writer = "free" /\ m.readers = {}

\* h.mu.RLock() goes through: no writer holds the lock
canRLock(m) == m.writer = "free"

\* h.subscribers[userID][subscriberID] = messageChan, the inner map made first
\* when the user has none
addSubscriber(subs, userID, id) == [subs EXCEPT ![userID] = @ \cup {id}]

\* delete(subMap, subscriberID), and delete(h.subscribers, userID) when the
\* inner map is empty: a user without map is a user with no subscriber
removeSubscriber(subs, userID, id) == [subs EXCEPT ![userID] = @ \ {id}]

\* select { case ch <- notification: default: } on an open channel: the
\* notification is buffered when there is room and dropped otherwise
trySend(ch) == IF ch.buf < ChanCap THEN [ch EXCEPT !.buf = @ + 1] ELSE ch

NoChan == [state |-> "none", buf |-> 0]

NotifyIdle ==
    /\ subscribers = [u \in NotifyUsers |-> {}]
    /\ chans = [c \in Subscribers |-> NoChan]
    /\ hmu = [writer |-> "free", readers |-> {}]
    /\ conns = [c \in Subscribers |-> [pc |-> "idle", user |-> ""]]
    /\ senders = [n \in Senders |-> [pc |-> "idle", user |-> "", pending |-> {}]]
    /\ panicked = FALSE

----------------------------------------------------------------------------
(* Actions *)

Init ==
    /\ pc = "fetching"
    /\ emails = <<>>
    /\ done = 0
    /\ nodes = <<>>
    /\ idTable = <<>>
    /\ history = <<>>
    /\ rootSet = <<>>
    /\ threads = <<>>
    /\ served = 0
    /\ mailbox = 0
    /\ broken = {}
    /\ call = NoCall
    /\ paged = NoReturn
    /\ stream = NoStream
    /\ MoveIdle
    /\ FolderIdle
    /\ PartsIdle
    /\ SubjectIdle
    /\ PreviewIdle
    /\ StorageIdle
    /\ StreamIdle
    /\ CacheIdle
    /\ NotifyIdle

\* the mailbox delivers one more message, which joins the batch
FetchMessage ==
    /\ pc = "fetching"
    /\ Len(emails) < MaxEmails
    /\ \E e \in EmailsFrom(TokensUsed(emails), NumIds + Len(emails) + 1) :
           emails' = Append(emails, e.email)
    /\ UNCHANGED <<pc, done, nodes, idTable, history, rootSet, threads>>
    /\ UNCHANGED <<served, pageVars, moveVars, folderVars, partVars, subjectVars, previewVars, storeVars, streamVars, cacheVars, notifyVars>>

\* FetchThreads fills in the threading fields of every email and calls
\* BuildThreads with a new ThreadBuilder
FetchThreads ==
    /\ pc = "fetching"
    /\ emails # <<>>
    /\ emails' = [k \in 1..Len(emails) |-> ensureThreadingFields(emails[k])]
    /\ LET tb == threadBuilder([nodes |-> nodes, idTable |-> idTable,
                                history |-> history, rootSet |-> rootSet])
       IN  /\ nodes' = tb.nodes
           /\ idTable' = tb.idTable
           /\ history' = tb.history
           /\ rootSet' = tb.rootSet
    /\ pc' = "step1"
    /\ UNCHANGED <<done, threads>>
    /\ UNCHANGED <<served, pageVars, moveVars, folderVars, partVars, subjectVars, previewVars, storeVars, streamVars, cacheVars, notifyVars>>

\* BuildThreads is called on the batch as it is, with a new ThreadBuilder
CallBuildThreads ==
    /\ pc = "fetching"
    /\ emails # <<>>
    /\ LET tb == threadBuilder([nodes |-> nodes, idTable |-> idTable,
                                history |-> history, rootSet |-> rootSet])
       IN  /\ nodes' = tb.nodes
           /\ idTable' = tb.idTable
           /\ history' = tb.history
           /\ rootSet' = tb.rootSet
    /\ pc' = "step1"
    /\ UNCHANGED <<emails, done, threads>>
    /\ UNCHANGED <<served, pageVars, moveVars, folderVars, partVars, subjectVars, previewVars, storeVars, streamVars, cacheVars, notifyVars>>

\* one iteration of `for _, email := range emails`
LoopEmail ==
    /\ pc = "step1"
    /\ done < Len(emails)
    /\ LET tb == processEmail([nodes |-> nodes, idTable |-> idTable, history |-> history],
                              emails, done + 1)
       IN  /\ nodes' = tb.nodes
           /\ idTable' = tb.idTable
           /\ history' = tb.history
    /\ done' = done + 1
    /\ UNCHANGED <<pc, emails, rootSet, threads>>
    /\ UNCHANGED <<served, pageVars, moveVars, folderVars, partVars, subjectVars, previewVars, storeVars, streamVars, cacheVars, notifyVars>>

\* step 2: the roots are appended to tb.rootSet, in the order the map
\* iteration yields them
FindRoots ==
    /\ pc = "step1"
    /\ done = Len(emails)
    /\ \E found \in Orderings(rootContainers(nodes, idTable)) :
           rootSet' = rootSet \o found
    /\ pc' = "step3"
    /\ UNCHANGED <<emails, done, nodes, idTable, history, threads>>
    /\ UNCHANGED <<served, pageVars, moveVars, folderVars, partVars, subjectVars, previewVars, storeVars, streamVars, cacheVars, notifyVars>>

\* step 3: groupThreads
GroupThreads ==
    /\ pc = "step3"
    /\ \E clock \in Clocks(Len(rootSet)) :
           threads' = groupThreads(nodes, emails, rootSet, clock, 1)
    /\ pc' = "step4"
    /\ UNCHANGED <<emails, done, nodes, idTable, history, rootSet>>
    /\ UNCHANGED <<served, pageVars, moveVars, folderVars, partVars, subjectVars, previewVars, storeVars, streamVars, cacheVars, notifyVars>>

\* step 4: the sort, and the return
SortThreads ==
    /\ pc = "step4"
    /\ threads' \in sortSlice(threads)
    /\ pc' = "returned"
    /\ UNCHANGED <<emails, done, nodes, idTable, history, rootSet>>
    /\ UNCHANGED <<served, pageVars, moveVars, folderVars, partVars, subjectVars, previewVars, storeVars, streamVars, cacheVars, notifyVars>>

Next ==
    \/ FetchMessage
    \/ FetchThreads
    \/ CallBuildThreads
    \/ LoopEmail
    \/ FindRoots
    \/ GroupThreads
    \/ SortThreads

Spec == Init /\ [][Next]_vars

----------------------------------------------------------------------------
(* FetchThreads on messages with flags and attachments *)

\* the emails with UID token uid that FetchMessages may deliver after u used
\* tokens: any flags, with or without attachments, at most one reference
FlaggedFrom(u, uid) ==
    {[e.email EXCEPT !.Flags = fl, !.HasAttachments = at] :
        e \in {x \in EmailsFrom(u, uid) :
                  /\ x.email.InReplyTo = EmptyId
                  /\ Len(x.email.References) <= 1
                  /\ x.email.Date = 0},
        fl \in FlagSets, at \in BOOLEAN}

\* the mailbox delivers one more message, which joins the batch
FetchFlaggedMessage ==
    /\ pc = "fetching"
    /\ Len(emails) < MaxEmails
    /\ \E e \in FlaggedFrom(TokensUsed(emails), NumIds + Len(emails) + 1) :
           emails' = Append(emails, e)
    /\ UNCHANGED <<pc, done, nodes, idTable, history, rootSet, threads>>
    /\ UNCHANGED <<served, pageVars, moveVars, folderVars, partVars, subjectVars, previewVars, storeVars, streamVars, cacheVars, notifyVars>>

NextFetchThreads ==
    \/ FetchFlaggedMessage
    \/ FetchThreads
    \/ LoopEmail
    \/ FindRoots
    \/ GroupThreads
    \/ SortThreads

SpecFetchThreads == Init /\ [][NextFetchThreads]_vars

----------------------------------------------------------------------------
(* One threading request after another: FetchThreads called again *)

\* the emails with UID token uid that FetchMessages may deliver after u used
\* tokens, here without references and with the zero date
PlainFrom(u, uid) ==
    {e.email : e \in {x \in EmailsFrom(u, uid) :
                         x.email.References = <<>> /\ x.email.Date = 0}}

\* the mailbox delivers one more message, which joins the batch
FetchPlainMessage ==
    /\ pc = "fetching"
    /\ Len(emails) < MaxEmails
    /\ \E e \in PlainFrom(TokensUsed(emails), NumIds + Len(emails) + 1) :
           emails' = Append(emails, e)
    /\ UNCHANGED <<pc, done, nodes, idTable, history, rootSet, threads>>
    /\ UNCHANGED <<served, pageVars, moveVars, folderVars, partVars, subjectVars, previewVars, storeVars, streamVars, cacheVars, notifyVars>>

\* the next call of FetchThreads: a new batch and a new result; the builder
\* of the call before is still in memory
NextRequest ==
    /\ pc = "returned"
    /\ served < MaxRequests
    /\ pc' = "fetching"
    /\ emails' = <<>>
    /\ done' = 0
    /\ threads' = <<>>
    /\ served' = served + 1
    /\ UNCHANGED <<nodes, idTable, history, rootSet>>
    /\ UNCHANGED <<pageVars, moveVars, folderVars, partVars, subjectVars, previewVars, storeVars, streamVars, cacheVars, notifyVars>>

NextRequests ==
    \/ FetchPlainMessage
    \/ FetchThreads
    \/ LoopEmail
    \/ FindRoots
    \/ GroupThreads
    \/ SortThreads
    \/ NextRequest

SpecRequests == Init /\ [][NextRequests]_vars

----------------------------------------------------------------------------
(* The folder view: calls of FetchMessagesPaginated on a folder *)

PageNumbers == 0..MaxPage \cup {UintMax}

PageSizes == 1..MaxPageSize \cup {UintMax}

Limits == 1..MaxPageSize \cup {UintMax}

InitPage ==
    /\ pc = "idle"
    /\ emails = <<>>
    /\ done = 0
    /\ nodes = <<>>
    /\ idTable = <<>>
    /\ history = <<>>
    /\ rootSet = <<>>
    /\ threads = <<>>
    /\ served = 0
    /\ mailbox \in 0..MaxTotal
    /\ broken \in SUBSET (1..mailbox)
    /\ call = NoCall
    /\ paged = NoReturn
    /\ stream = NoStream
    /\ MoveIdle
    /\ FolderIdle
    /\ PartsIdle
    /\ SubjectIdle
    /\ PreviewIdle
    /\ StorageIdle
    /\ StreamIdle
    /\ CacheIdle
    /\ NotifyIdle

\* one call, with any page number and page size
CallFetchMessagesPaginated ==
    /\ \E page \in PageNumbers, pageSize \in PageSizes, selectOK, fetchOK \in BOOLEAN :
           /\ call' = [made |-> TRUE, page |-> page, pageSize |-> pageSize]
           /\ paged' = FetchMessagesPaginated(mailbox, page, pageSize,
                                              selectOK, fetchOK, broken)
           /\ stream' = [op |-> "FetchMessagesPaginated", err |-> paged'.err,
                         msgs |-> IF paged'.range = NoRange THEN <<>>
                                  ELSE fetchRange(mailbox, paged'.range.start,
                                                  paged'.range.end),
                         emails |-> paged'.page.Emails]
    /\ UNCHANGED <<mailbox, broken>>
    /\ UNCHANGED <<threadVars, moveVars, folderVars, partVars, subjectVars, previewVars, storeVars, streamVars, cacheVars, notifyVars>>

\* one call of FetchMessages, with any limit
CallFetchMessages ==
    /\ \E limit \in Limits, selectOK, fetchOK \in BOOLEAN :
           LET got == FetchMessages(mailbox, limit, selectOK, fetchOK, broken)
           IN  stream' = [op |-> "FetchMessages", err |-> got.err, msgs |-> got.msgs,
                          emails |-> got.emails]
    /\ call' = NoCall
    /\ paged' = NoReturn
    /\ UNCHANGED <<mailbox, broken>>
    /\ UNCHANGED <<threadVars, moveVars, folderVars, partVars, subjectVars, previewVars, storeVars, streamVars, cacheVars, notifyVars>>

\* one call of FetchMessagesByUIDs, with any UIDs, one of them not in the folder
CallFetchMessagesByUIDs ==
    /\ \E uids \in SUBSET (1..(mailbox + 1)), selectOK, fetchOK \in BOOLEAN :
           LET got == FetchMessagesByUIDs(mailbox, uids, selectOK, fetchOK, broken)
           IN  stream' = [op |-> "FetchMessagesByUIDs", err |-> got.err, msgs |-> got.msgs,
                          emails |-> got.emails]
    /\ call' = NoCall
    /\ paged' = NoReturn
    /\ UNCHANGED <<mailbox, broken>>
    /\ UNCHANGED <<threadVars, moveVars, folderVars, partVars, subjectVars, previewVars, storeVars, streamVars, cacheVars, notifyVars>>

NextPage ==
    \/ CallFetchMessagesPaginated
    \/ CallFetchMessages
    \/ CallFetchMessagesByUIDs

SpecPage == InitPage /\ [][NextPage]_vars

----------------------------------------------------------------------------
(* Moving a message: MoveMessage, one protocol command at a time *)

Uids == 1..MaxUid

InitMove ==
    /\ pc = "idle"
    /\ emails = <<>>
    /\ done = 0
    /\ nodes = <<>>
    /\ idTable = <<>>
    /\ history = <<>>
    /\ rootSet = <<>>
    /\ threads = <<>>
    /\ served = 0
    /\ mailbox = 0
    /\ broken = {}
    /\ call = NoCall
    /\ paged = NoReturn
    /\ stream = NoStream
    /\ mpc = "idle"
    /\ moveCall = NoMove
    /\ source \in SUBSET Uids
    /\ deleted \in SUBSET source
    /\ target = {}
    /\ requests = <<>>
    /\ moveErr = "no call"
    /\ FolderIdle
    /\ PartsIdle
    /\ SubjectIdle
    /\ PreviewIdle
    /\ StorageIdle
    /\ StreamIdle
    /\ CacheIdle
    /\ NotifyIdle

\* MoveMessage is called: the uid string is parsed, an invalid one returns
CallMoveMessage ==
    /\ mpc = "idle"
    /\ \E uid \in 0..(MaxUid + 1) :
           /\ moveCall' = [uid |-> uid, source |-> source, deleted |-> deleted]
           /\ mpc' = IF parseUID(uid).err THEN "returned" ELSE "SELECT"
           /\ moveErr' = IF parseUID(uid).err THEN "invalid UID" ELSE "running"
    /\ UNCHANGED <<source, deleted, target, requests>>
    /\ UNCHANGED <<threadVars, pageVars, folderVars, partVars, subjectVars, previewVars, storeVars, streamVars, cacheVars, notifyVars>>

\* what every command does to the position, the log and the error
issue(step, ok) ==
    /\ mpc = step
    /\ requests' = Append(requests, [cmd |-> step, ok |-> ok])
    /\ mpc' = afterStep(step, ok)
    /\ moveErr' = IF ~ok THEN stepError(step)
                  ELSE IF afterStep(step, ok) = "returned" THEN "none" ELSE moveErr
    /\ UNCHANGED moveCall
    /\ UNCHANGED <<threadVars, pageVars, folderVars, partVars, subjectVars, previewVars, storeVars, streamVars, cacheVars, notifyVars>>

\* c.client.Select(sourceFolder, false)
MoveSelect ==
    \E ok \in BOOLEAN :
        /\ issue("SELECT", ok)
        /\ UNCHANGED <<source, deleted, target>>

\* c.client.UidCopy(seqSet, targetFolder): a copy of the message, if it exists
MoveCopy ==
    \E ok \in BOOLEAN :
        /\ issue("UID COPY", ok)
        /\ target' = IF ok THEN target \cup ({moveCall.uid} \cap source) ELSE target
        /\ UNCHANGED <<source, deleted>>

\* c.client.UidStore(seqSet, +FLAGS.SILENT, \Deleted)
MoveStore ==
    \E ok \in BOOLEAN :
        /\ issue("UID STORE", ok)
        /\ deleted' = IF ok THEN deleted \cup ({moveCall.uid} \cap source) ELSE deleted
        /\ UNCHANGED <<source, target>>

\* c.client.Expunge(nil): every message flagged \Deleted leaves the folder
MoveExpunge ==
    \E ok \in BOOLEAN :
        /\ issue("EXPUNGE", ok)
        /\ source' = IF ok THEN source \ deleted ELSE source
        /\ deleted' = IF ok THEN {} ELSE deleted
        /\ UNCHANGED target

NextMove ==
    \/ CallMoveMessage
    \/ MoveSelect
    \/ MoveCopy
    \/ MoveStore
    \/ MoveExpunge

SpecMove == InitMove /\ [][NextMove]_vars

----------------------------------------------------------------------------
(* Removing a message: DeleteMessage and MoveMessage on one folder *)

\* DeleteMessage is called: the uid string is parsed, an invalid one returns
CallDeleteMessage ==
    /\ mpc = "idle"
    /\ \E uid \in 0..(MaxUid + 1) :
           /\ moveCall' = [uid |-> uid, source |-> source, deleted |-> deleted]
           /\ mpc' = IF parseUID(uid).err THEN "returned" ELSE deletePosition("SELECT")
           /\ moveErr' = IF parseUID(uid).err THEN "invalid UID" ELSE "running"
    /\ UNCHANGED <<source, deleted, target, requests>>
    /\ UNCHANGED <<threadVars, pageVars, folderVars, partVars, subjectVars, previewVars, storeVars, streamVars, cacheVars, notifyVars>>

\* what every command of DeleteMessage does to the position, the log and the
\* error
issueDelete(step, ok) ==
    /\ mpc = deletePosition(step)
    /\ requests' = Append(requests, [cmd |-> step, ok |-> ok])
    /\ mpc' = deletePosition(afterDeleteStep(step, ok))
    /\ moveErr' = IF ~ok THEN deleteError(step)
                  ELSE IF afterDeleteStep(step, ok) = "returned" THEN "none" ELSE moveErr
    /\ UNCHANGED <<moveCall, target>>
    /\ UNCHANGED <<threadVars, pageVars, folderVars, partVars, subjectVars, previewVars, storeVars, streamVars, cacheVars, notifyVars>>

\* c.client.Select(folderName, false)
DeleteSelect ==
    \E ok \in BOOLEAN :
        /\ issueDelete("SELECT", ok)
        /\ UNCHANGED <<source, deleted>>

\* c.client.UidStore(seqSet, +FLAGS.SILENT, \Deleted)
DeleteStore ==
    \E ok \in BOOLEAN :
        /\ issueDelete("UID STORE", ok)
        /\ deleted' = IF ok THEN deleted \cup ({moveCall.uid} \cap source) ELSE deleted
        /\ UNCHANGED source

\* c.client.Expunge(nil): every message flagged \Deleted leaves the folder
DeleteExpunge ==
    \E ok \in BOOLEAN :
        /\ issueDelete("EXPUNGE", ok)
        /\ source' = IF ok THEN source \ deleted ELSE source
        /\ deleted' = IF ok THEN {} ELSE deleted

NextRemove ==
    \/ CallDeleteMessage
    \/ DeleteSelect
    \/ DeleteStore
    \/ DeleteExpunge
    \/ CallMoveMessage
    \/ MoveSelect
    \/ MoveCopy
    \/ MoveStore
    \/ MoveExpunge

SpecRemove == InitMove /\ [][NextRemove]_vars

----------------------------------------------------------------------------
(* Folder management: requests to the FolderHandler *)

\* the folder names of the model: the five special names and two more
FolderNames == {"INBOX", "Sent", "Drafts", "Trash", "Spam", "Work", "Old"}

\* the names a request may carry
RequestNames == FolderNames \cup {""}

\* the steps of a handler that may fail
Faults == {"none", "body", "credentials", "connect", "server"}

InitFolder ==
    /\ pc = "idle"
    /\ emails = <<>>
    /\ done = 0
    /\ nodes = <<>>
    /\ idTable = <<>>
    /\ history = <<>>
    /\ rootSet = <<>>
    /\ threads = <<>>
    /\ served = 0
    /\ mailbox = 0
    /\ broken = {}
    /\ call = NoCall
    /\ paged = NoReturn
    /\ stream = NoStream
    /\ MoveIdle
    /\ folders \in {{"INBOX"} \cup fs : fs \in SUBSET (FolderNames \ {"INBOX", "Old"})}
    /\ reply = NoReply
    /\ PartsIdle
    /\ SubjectIdle
    /\ PreviewIdle
    /\ StorageIdle
    /\ StreamIdle
    /\ CacheIdle
    /\ NotifyIdle

\* DELETE /folder/:name
CallDeleteFolder ==
    /\ \E name \in RequestNames, fault \in Faults \ {"body"} :
           LET a == DeleteFolder(folders, name, fault)
           IN  /\ folders' = a.folders
               /\ reply' = [op |-> "delete", name |-> name, newName |-> "",
                            changed |-> a.folders # folders, answer |-> a]
    /\ UNCHANGED <<threadVars, pageVars, moveVars, partVars, subjectVars, previewVars, storeVars, streamVars, cacheVars, notifyVars>>

\* PUT /folder
CallRenameFolder ==
    /\ \E oldName \in RequestNames, newName \in {"", "INBOX", "Work", "Old"},
          fault \in Faults :
           LET a == RenameFolder(folders, oldName, newName, fault)
           IN  /\ folders' = a.folders
               /\ reply' = [op |-> "rename", name |-> oldName, newName |-> newName,
                            changed |-> a.folders # folders, answer |-> a]
    /\ UNCHANGED <<threadVars, pageVars, moveVars, partVars, subjectVars, previewVars, storeVars, streamVars, cacheVars, notifyVars>>

NextFolder ==
    \/ CallDeleteFolder
    \/ CallRenameFolder

SpecFolder == InitFolder /\ [][NextFolder]_vars

----------------------------------------------------------------------------
(* Reading a multipart message: the loop of processMessage *)

\* the parts a message may hold
Parts == [type : PartTypes, data : 1..MaxData, readable : BOOLEAN]

InitParts ==
    /\ pc = "idle"
    /\ emails = <<>>
    /\ done = 0
    /\ nodes = <<>>
    /\ idTable = <<>>
    /\ history = <<>>
    /\ rootSet = <<>>
    /\ threads = <<>>
    /\ served = 0
    /\ mailbox = 0
    /\ broken = {}
    /\ call = NoCall
    /\ paged = NoReturn
    /\ stream = NoStream
    /\ MoveIdle
    /\ FolderIdle
    /\ parts \in UNION {[1..n -> Parts] : n \in 0..MaxParts}
    /\ nextPart = 1
    /\ body = NoBody
    /\ SubjectIdle
    /\ PreviewIdle
    /\ StorageIdle
    /\ StreamIdle
    /\ CacheIdle
    /\ NotifyIdle

\* mr.NextPart() yields a part and the loop body handles it
NextPart ==
    /\ nextPart <= Len(parts)
    /\ body' = readPart(body, parts[nextPart])
    /\ nextPart' = nextPart + 1
    /\ UNCHANGED parts
    /\ UNCHANGED <<threadVars, pageVars, moveVars, folderVars, subjectVars, previewVars, storeVars, streamVars, cacheVars, notifyVars>>

NextParts == NextPart

SpecParts == InitParts /\ [][NextParts]_vars

----------------------------------------------------------------------------
(* Subjects: cleanSubject applied to a Subject header *)

\* the pieces the subjects of the model are made of
Chunks ==
    {<<"R", "e", ":">>,
     <<"R", "E", ":">>,
     <<"r", "e", ":">>,
     <<"F", "w", "d", ":">>,
     <<"F", "W", "D", ":">>,
     <<"F", "w", ":">>,
     <<"F", "W", ":">>,
     <<" ">>,
     <<"H", "e", "l", "l", "o">>,
     <<"H", "i">>,
     <<"R", "e", ":", " ">>,
     <<"F", "W", "D", ":", " ">>}

InitSubject ==
    /\ pc = "idle"
    /\ emails = <<>>
    /\ done = 0
    /\ nodes = <<>>
    /\ idTable = <<>>
    /\ history = <<>>
    /\ rootSet = <<>>
    /\ threads = <<>>
    /\ served = 0
    /\ mailbox = 0
    /\ broken = {}
    /\ call = NoCall
    /\ paged = NoReturn
    /\ stream = NoStream
    /\ MoveIdle
    /\ FolderIdle
    /\ PartsIdle
    /\ subject \in UNION {{<<>>}, Chunks, {a \o b : a, b \in Chunks},
                          {a \o b \o c : a, b, c \in Chunks}}
    /\ cleaned = NotCleaned
    /\ PreviewIdle
    /\ StorageIdle
    /\ StreamIdle
    /\ CacheIdle
    /\ NotifyIdle

\* thread.Subject = cleanSubject(...)
CleanSubject ==
    /\ ~cleaned.done
    /\ cleaned' = [done |-> TRUE, subject |-> cleanSubject(subject)]
    /\ UNCHANGED subject
    /\ UNCHANGED <<threadVars, pageVars, moveVars, folderVars, partVars, previewVars, storeVars, streamVars, cacheVars, notifyVars>>

NextSubject == CleanSubject

SpecSubject == InitSubject /\ [][NextSubject]_vars

----------------------------------------------------------------------------
(* Previews: createPreview applied to the body of a message *)

InitPreview ==
    /\ ThreadIdle
    /\ PageIdle
    /\ MoveIdle
    /\ FolderIdle
    /\ PartsIdle
    /\ SubjectIdle
    /\ text = <<>>
    /\ preview = NoPreview
    /\ StorageIdle
    /\ StreamIdle
    /\ CacheIdle
    /\ NotifyIdle

\* one more character of the body is read
ReadBody ==
    /\ ~preview.done
    /\ \E c \in Characters :
           /\ Len(text) + Len(c) <= MaxText
           /\ text' = text \o c
    /\ UNCHANGED preview
    /\ UNCHANGED <<threadVars, pageVars, moveVars, folderVars, partVars, subjectVars, storeVars, streamVars, cacheVars, notifyVars>>

\* if email.Body != "" { email.Preview = createPreview(email.Body) }
CreatePreview ==
    /\ ~preview.done
    /\ text # <<>>
    /\ preview' = [done |-> TRUE, text |-> createPreview(text)]
    /\ UNCHANGED text
    /\ UNCHANGED <<threadVars, pageVars, moveVars, folderVars, partVars, subjectVars, storeVars, streamVars, cacheVars, notifyVars>>

NextPreview ==
    \/ ReadBody
    \/ CreatePreview

SpecPreview == InitPreview /\ [][NextPreview]_vars

----------------------------------------------------------------------------
(* The thread cache: SaveThread and GetThreadsByFolder on one ThreadStorage *)

InitStorage ==
    /\ ThreadIdle
    /\ PageIdle
    /\ MoveIdle
    /\ FolderIdle
    /\ PartsIdle
    /\ SubjectIdle
    /\ PreviewIdle
    /\ files = {}
    /\ lastSave = NoSave
    /\ listed = NoListing
    /\ StreamIdle
    /\ CacheIdle
    /\ NotifyIdle

\* h.threadStorage.SaveThread(t) of HandleInbox and HandleFolder, for a thread
\* of the folder the user is viewing
CallSaveThread ==
    /\ \E id \in Ids \cup {EmptyId}, userID \in UserIDs, folder \in CachedFolders :
           /\ id = EmptyId => Cardinality(uuidFiles(files)) < MaxUuids
           /\ files' = SaveThread(files, StoredThread(id, userID, folder))
           /\ lastSave' = [made |-> TRUE, thread |-> StoredThread(id, userID, folder),
                           before |-> files]
    /\ listed' = NoListing
    /\ UNCHANGED <<threadVars, pageVars, moveVars, folderVars, partVars, subjectVars, previewVars, streamVars, cacheVars, notifyVars>>

\* h.threadStorage.GetThreadsByFolder(userID, folderName)
CallGetThreadsByFolder ==
    /\ \E userID \in UserIDs, folder \in CachedFolders :
           listed' = [made |-> TRUE, userID |-> userID, folder |-> folder,
                      threads |-> GetThreadsByFolder(files, userID, folder)]
    /\ UNCHANGED <<files, lastSave>>
    /\ UNCHANGED <<threadVars, pageVars, moveVars, folderVars, partVars, subjectVars, previewVars, streamVars, cacheVars, notifyVars>>

NextStorage ==
    \/ CallSaveThread
    \/ CallGetThreadsByFolder

SpecStorage == InitStorage /\ [][NextStorage]_vars

----------------------------------------------------------------------------
(* Streaming: the goroutine of a fetch operation and its caller, step by step *)

InitStream ==
    /\ ThreadIdle
    /\ PageIdle
    /\ MoveIdle
    /\ FolderIdle
    /\ PartsIdle
    /\ SubjectIdle
    /\ PreviewIdle
    /\ StorageIdle
    /\ StreamIdle
    /\ CacheIdle
    /\ NotifyIdle

\* a fetch operation makes its two channels and starts the goroutine; the
\* server will stream n messages before the command ends or fails
CallFetch ==
    /\ cpc = "idle"
    /\ \E op \in FetchOps :
           \E cap \in Capacities(op), n \in 0..MaxStream :
               /\ fetchOp' = [op |-> op, cap |-> cap]
               /\ toStream' = n
    /\ gpc' = "fetch"
    /\ cpc' = "range"
    /\ UNCHANGED <<messages, completion, received>>
    /\ UNCHANGED <<threadVars, pageVars, moveVars, folderVars, partVars, subjectVars, previewVars, storeVars, cacheVars, notifyVars>>

\* Fetch / UidFetch hands one message to the channel: the send goes through
\* when the buffer has room
SendMessage ==
    /\ gpc = "fetch"
    /\ toStream > 0
    /\ Len(messages.buf) < fetchOp.cap
    /\ messages' = [messages EXCEPT !.buf = Append(@, toStream)]
    /\ toStream' = toStream - 1
    /\ UNCHANGED <<fetchOp, completion, gpc, cpc, received>>
    /\ UNCHANGED <<threadVars, pageVars, moveVars, folderVars, partVars, subjectVars, previewVars, storeVars, cacheVars, notifyVars>>

\* Fetch / UidFetch returns once every streamed message is in the channel,
\* with or without an error, and closes the channel
FetchReturns ==
    /\ gpc = "fetch"
    /\ toStream = 0
    /\ \E ok \in BOOLEAN : gpc' = IF ok THEN "send nil" ELSE "send error"
    /\ messages' = [messages EXCEPT !.closed = TRUE]
    /\ UNCHANGED <<fetchOp, toStream, completion, cpc, received>>
    /\ UNCHANGED <<threadVars, pageVars, moveVars, folderVars, partVars, subjectVars, previewVars, storeVars, cacheVars, notifyVars>>

\* done <- the result of Fetch / UidFetch
SendCompletion ==
    /\ gpc \in {"send nil", "send error"}
    /\ Len(completion) < 1
    /\ completion' = Append(completion, IF gpc = "send nil" THEN "nil" ELSE "error")
    /\ gpc' = "exited"
    /\ UNCHANGED <<fetchOp, toStream, messages, cpc, received>>
    /\ UNCHANGED <<threadVars, pageVars, moveVars, folderVars, partVars, subjectVars, previewVars, storeVars, cacheVars, notifyVars>>

\* for msg := range messages: the caller takes a message
ReceiveMessage ==
    /\ cpc = "range"
    /\ messages.buf # <<>>
    /\ messages' = [messages EXCEPT !.buf = Tail(@)]
    /\ received' = received + 1
    /\ cpc' = afterMessage(fetchOp.op)
    /\ UNCHANGED <<fetchOp, toStream, completion, gpc>>
    /\ UNCHANGED <<threadVars, pageVars, moveVars, folderVars, partVars, subjectVars, previewVars, storeVars, cacheVars, notifyVars>>

\* for msg := range messages: the channel is closed and empty, the loop ends
RangeEnds ==
    /\ cpc = "range"
    /\ messages.buf = <<>>
    /\ messages.closed
    /\ cpc' = "done"
    /\ UNCHANGED <<fetchOp, toStream, messages, completion, gpc, received>>
    /\ UNCHANGED <<threadVars, pageVars, moveVars, folderVars, partVars, subjectVars, previewVars, storeVars, cacheVars, notifyVars>>

\* err := <-done, and the operation returns
ReceiveCompletion ==
    /\ cpc = "done"
    /\ completion # <<>>
    /\ completion' = Tail(completion)
    /\ cpc' = "returned"
    /\ UNCHANGED <<fetchOp, toStream, messages, gpc, received>>
    /\ UNCHANGED <<threadVars, pageVars, moveVars, folderVars, partVars, subjectVars, previewVars, storeVars, cacheVars, notifyVars>>

NextStream ==
    \/ CallFetch
    \/ SendMessage
    \/ FetchReturns
    \/ SendCompletion
    \/ ReceiveMessage
    \/ RangeEnds
    \/ ReceiveCompletion

SpecStream == InitStream /\ [][NextStream]_vars

----------------------------------------------------------------------------
(* The cache: concurrent Set and Get calls on one key, lock by lock *)

InitCache ==
    /\ ThreadIdle
    /\ PageIdle
    /\ MoveIdle
    /\ FolderIdle
    /\ PartsIdle
    /\ SubjectIdle
    /\ PreviewIdle
    /\ StorageIdle
    /\ StreamIdle
    /\ CacheIdle
    /\ NotifyIdle

\* Get returns: the result, with the time and the number of Set calls begun
returns(g, value) ==
    [getters EXCEPT ![g] = [@ EXCEPT !.pc = "returned", !.result = value,
                                      !.at = wallClock, !.sets = Len(setLog)]]

\* time passes
Tick ==
    /\ wallClock < MaxTime
    /\ wallClock' = wallClock + 1
    /\ UNCHANGED <<items, diskItem, mu, setLog, spc, getters>>
    /\ UNCHANGED <<threadVars, pageVars, moveVars, folderVars, partVars, subjectVars, previewVars, storeVars, streamVars, notifyVars>>

\* Set: c.mu.Lock(); c.items[key] = item.  The value of the k-th Set is k.
SetStore ==
    /\ spc = "idle"
    /\ mu = "free"
    /\ Len(setLog) < MaxSets
    /\ \E ttl \in 1..MaxTtl :
           /\ items' = CacheItem(Len(setLog) + 1, ttl, wallClock)
           /\ setLog' = Append(setLog, CacheItem(Len(setLog) + 1, ttl, wallClock))
    /\ mu' = "Set"
    /\ spc' = "save"
    /\ UNCHANGED <<diskItem, wallClock, getters>>
    /\ UNCHANGED <<threadVars, pageVars, moveVars, folderVars, partVars, subjectVars, previewVars, storeVars, streamVars, notifyVars>>

\* Set: c.saveToDisk(key, item), the deferred c.mu.Unlock(), and the return
SetSave ==
    /\ spc = "save"
    /\ diskItem' = items
    /\ mu' = "free"
    /\ spc' = "idle"
    /\ UNCHANGED <<items, wallClock, setLog, getters>>
    /\ UNCHANGED <<threadVars, pageVars, moveVars, folderVars, partVars, subjectVars, previewVars, storeVars, streamVars, notifyVars>>

\* Get is called: c.mu.RLock(); item, exists := c.items[key]; c.mu.RUnlock().
\* `after` is the number of Set calls that have returned by then.
GetRead(g) ==
    /\ getters[g].pc \in {"idle", "returned"}
    /\ mu = "free"
    /\ getters' = [getters EXCEPT ![g] =
                       [pc |-> IF items # NoItem THEN "check" ELSE "disk",
                        item |-> items, after |-> Len(setLog), result |-> Miss,
                        at |-> 0, sets |-> 0]]
    /\ UNCHANGED <<items, diskItem, wallClock, mu, setLog, spc>>
    /\ UNCHANGED <<threadVars, pageVars, moveVars, folderVars, partVars, subjectVars, previewVars, storeVars, streamVars, notifyVars>>

\* Get: if time.Now().After(item.Expiration), else return item.Value, true
GetCheck(g) ==
    /\ getters[g].pc = "check"
    /\ getters' = IF expired(getters[g].item, wallClock)
                  THEN [getters EXCEPT ![g].pc = "delete"]
                  ELSE returns(g, getters[g].item.Value)
    /\ UNCHANGED <<items, diskItem, wallClock, mu, setLog, spc>>
    /\ UNCHANGED <<threadVars, pageVars, moveVars, folderVars, partVars, subjectVars, previewVars, storeVars, streamVars, notifyVars>>

\* Get: c.Delete(key), its part under the lock: delete(c.items, key)
GetDelete(g) ==
    /\ getters[g].pc = "delete"
    /\ mu = "free"
    /\ items' = NoItem
    /\ getters' = [getters EXCEPT ![g].pc = "delete file"]
    /\ UNCHANGED <<diskItem, wallClock, mu, setLog, spc>>
    /\ UNCHANGED <<threadVars, pageVars, moveVars, folderVars, partVars, subjectVars, previewVars, storeVars, streamVars, notifyVars>>

\* Get: c.Delete(key), c.deleteFromDisk(key) after the unlock; return nil, false
GetDeleteFile(g) ==
    /\ getters[g].pc = "delete file"
    /\ diskItem' = NoItem
    /\ getters' = returns(g, Miss)
    /\ UNCHANGED <<items, wallClock, mu, setLog, spc>>
    /\ UNCHANGED <<threadVars, pageVars, moveVars, folderVars, partVars, subjectVars, previewVars, storeVars, streamVars, notifyVars>>

\* Get, nothing in memory: c.loadFromDisk(key) and the expiration check
GetLoad(g) ==
    /\ getters[g].pc = "disk"
    /\ getters' = IF diskItem = NoItem THEN returns(g, Miss)
                  ELSE [getters EXCEPT ![g].item = diskItem,
                                       ![g].pc = IF expired(diskItem, wallClock)
                                                 THEN "expired file" ELSE "restore"]
    /\ UNCHANGED <<items, diskItem, wallClock, mu, setLog, spc>>
    /\ UNCHANGED <<threadVars, pageVars, moveVars, folderVars, partVars, subjectVars, previewVars, storeVars, streamVars, notifyVars>>

\* Get: c.deleteFromDisk(key) of an expired file; return nil, false
GetDeleteExpired(g) ==
    /\ getters[g].pc = "expired file"
    /\ diskItem' = NoItem
    /\ getters' = returns(g, Miss)
    /\ UNCHANGED <<items, wallClock, mu, setLog, spc>>
    /\ UNCHANGED <<threadVars, pageVars, moveVars, folderVars, partVars, subjectVars, previewVars, storeVars, streamVars, notifyVars>>

\* Get: c.mu.Lock(); c.items[key] = diskItem; c.mu.Unlock(); return its value
GetRestore(g) ==
    /\ getters[g].pc = "restore"
    /\ mu = "free"
    /\ items' = getters[g].item
    /\ getters' = returns(g, getters[g].item.Value)
    /\ UNCHANGED <<diskItem, wallClock, mu, setLog, spc>>
    /\ UNCHANGED <<threadVars, pageVars, moveVars, folderVars, partVars, subjectVars, previewVars, storeVars, streamVars, notifyVars>>

\* cleanup, run by cleanupLoop: under the lock, an expired entry is deleted
\* from the map and from the disk
Cleanup ==
    /\ mu = "free"
    /\ items # NoItem
    /\ expired(items, wallClock)
    /\ items' = NoItem
    /\ diskItem' = NoItem
    /\ UNCHANGED <<wallClock, mu, setLog, spc, getters>>
    /\ UNCHANGED <<threadVars, pageVars, moveVars, folderVars, partVars, subjectVars, previewVars, storeVars, streamVars, notifyVars>>

NextCache ==
    \/ Tick
    \/ SetStore
    \/ SetSave
    \/ \E g \in Getters : GetRead(g)
    \/ \E g \in Getters : GetCheck(g)
    \/ \E g \in Getters : GetDelete(g)
    \/ \E g \in Getters : GetDeleteFile(g)
    \/ \E g \in Getters : GetLoad(g)
    \/ \E g \in Getters : GetDeleteExpired(g)
    \/ \E g \in Getters : GetRestore(g)
    \/ Cleanup

SpecCache == InitCache /\ [][NextCache]_vars

----------------------------------------------------------------------------
(* Notifications: connect, disconnect and SendNotification, lock by lock *)

InitNotify ==
    /\ ThreadIdle
    /\ PageIdle
    /\ MoveIdle
    /\ FolderIdle
    /\ PartsIdle
    /\ SubjectIdle
    /\ PreviewIdle
    /\ StorageIdle
    /\ StreamIdle
    /\ CacheIdle
    /\ NotifyIdle

\* HandleSSE / HandleWebSocket: make the channel and enter it in the map,
\* between h.mu.Lock() and h.mu.Unlock()
Connect(c) ==
    /\ conns[c].pc = "idle"
    /\ canLock(hmu)
    /\ \E userID \in NotifyUsers :
           /\ subscribers' = addSubscriber(subscribers, userID, c)
           /\ conns' = [conns EXCEPT ![c] = [pc |-> "connected", user |-> userID]]
    /\ chans' = [chans EXCEPT ![c] = [state |-> "open", buf |-> 0]]
    /\ UNCHANGED <<hmu, senders, panicked>>
    /\ UNCHANGED <<threadVars, pageVars, moveVars, folderVars, partVars, subjectVars, previewVars, storeVars, streamVars, cacheVars>>

\* the connection takes a notification from its channel and writes it out
Deliver(c) ==
    /\ conns[c].pc = "connected"
    /\ chans[c].buf > 0
    /\ chans' = [chans EXCEPT ![c].buf = @ - 1]
    /\ UNCHANGED <<subscribers, hmu, conns, senders, panicked>>
    /\ UNCHANGED <<threadVars, pageVars, moveVars, folderVars, partVars, subjectVars, previewVars, storeVars, streamVars, cacheVars>>

\* the deferred cleanup, first part: h.mu.Lock() and the subscriber is
\* deleted from the map
DisconnectRemove(c) ==
    /\ conns[c].pc = "connected"
    /\ canLock(hmu)
    /\ hmu' = [hmu EXCEPT !.writer = c]
    /\ subscribers' = removeSubscriber(subscribers, conns[c].user, c)
    /\ conns' = [conns EXCEPT ![c].pc = "closing"]
    /\ UNCHANGED <<chans, senders, panicked>>
    /\ UNCHANGED <<threadVars, pageVars, moveVars, folderVars, partVars, subjectVars, previewVars, storeVars, streamVars, cacheVars>>

\* the deferred cleanup, second part: close(messageChan) and h.mu.Unlock()
DisconnectClose(c) ==
    /\ conns[c].pc = "closing"
    /\ chans' = [chans EXCEPT ![c].state = "closed"]
    /\ hmu' = [hmu EXCEPT !.writer = "free"]
    /\ conns' = [conns EXCEPT ![c].pc = "gone"]
    /\ UNCHANGED <<subscribers, senders, panicked>>
    /\ UNCHANGED <<threadVars, pageVars, moveVars, folderVars, partVars, subjectVars, previewVars, storeVars, streamVars, cacheVars>>

\* SendNotification: h.mu.RLock() and the lookup of the user's map
SendLock(n) ==
    /\ senders[n].pc = "idle"
    /\ canRLock(hmu)
    /\ hmu' = [hmu EXCEPT !.readers = @ \cup {n}]
    /\ \E userID \in NotifyUsers :
           senders' = [senders EXCEPT ![n] = [pc |-> "sending", user |-> userID,
                                              pending |-> subscribers[userID]]]
    /\ UNCHANGED <<subscribers, chans, conns, panicked>>
    /\ UNCHANGED <<threadVars, pageVars, moveVars, folderVars, partVars, subjectVars, previewVars, storeVars, streamVars, cacheVars>>

\* SendNotification: one iteration of `for _, ch := range subMap`, the
\* select with default; a send on a closed channel panics
SendOne(n) ==
    /\ senders[n].pc = "sending"
    /\ \E c \in senders[n].pending :
           /\ senders' = [senders EXCEPT ![n].pending = @ \ {c}]
           /\ chans' = IF chans[c].state = "open"
                       THEN [chans EXCEPT ![c] = trySend(@)] ELSE chans
           /\ panicked' = (panicked \/ chans[c].state # "open")
    /\ UNCHANGED <<subscribers, hmu, conns>>
    /\ UNCHANGED <<threadVars, pageVars, moveVars, folderVars, partVars, subjectVars, previewVars, storeVars, streamVars, cacheVars>>

\* SendNotification: the loop is over, the deferred h.mu.RUnlock()
SendUnlock(n) ==
    /\ senders[n].pc = "sending"
    /\ senders[n].pending = {}
    /\ hmu' = [hmu EXCEPT !.readers = @ \ {n}]
    /\ senders' = [senders EXCEPT ![n] = [pc |-> "idle", user |-> "", pending |-> {}]]
    /\ UNCHANGED <<subscribers, chans, conns, panicked>>
    /\ UNCHANGED <<threadVars, pageVars, moveVars, folderVars, partVars, subjectVars, previewVars, storeVars, streamVars, cacheVars>>

NextNotify ==
    \/ \E c \in Subscribers : Connect(c)
    \/ \E c \in Subscribers : Deliver(c)
    \/ \E c \in Subscribers : DisconnectRemove(c)
    \/ \E c \in Subscribers : DisconnectClose(c)
    \/ \E n \in Senders : SendLock(n)
    \/ \E n \in Senders : SendOne(n)
    \/ \E n \in Senders : SendUnlock(n)

SpecNotify == InitNotify /\ [][NextNotify]_vars

----------------------------------------------------------------------------
(* Notions the properties are stated with *)

\* step 1 of BuildThreads has processed the whole batch
StepOneDone ==
    pc \in {"step3", "step4", "returned"} \/ (pc = "step1" /\ done = Len(emails))

TableNodes == {idTable[id] : id \in DOMAIN idTable}

\* the link attempts and the email visits of the history
Links == {history[x] : x \in {y \in DOMAIN history : history[y].op = "link"}}

Visits == {history[x] : x \in {y \in DOMAIN history : history[y].op = "email"}}

\* the ancestor of node n that k Parent steps reach, Nil past a root
RECURSIVE ancestor(_, _, _)
ancestor(ns, n, k) ==
    IF n = Nil \/ k = 0 THEN n ELSE ancestor(ns, ns[n].Parent, k - 1)

\* node n is r or below r, by Parent links
below(ns, n, r) == \E k \in 0..Len(ns) : ancestor(ns, n, k) = r

\* the UIDs of the messages carried by r and the nodes below it
messagesBelow(ns, es, r) ==
    {es[ns[n].Message].ID : n \in {x \in 1..Len(ns) : ns[x].Message # Nil /\ below(ns, x, r)}}

\* how often x occurs in the sequence q
occurrences(q, x) == Cardinality({i \in DOMAIN q : q[i] = x})

\* the parents a batch offers: <<parent identifier, child identifier>> for
\* consecutive references and for In-Reply-To, a node never offered to itself
offers(es) ==
    {o \in UNION {{<<es[k].References[i], es[k].References[i + 1]>> :
                       i \in 1..(Len(es[k].References) - 1)}
                  \cup (IF es[k].InReplyTo # EmptyId
                        THEN {<<es[k].InReplyTo, es[k].MessageID>>} ELSE {})
                  : k \in 1..Len(es)}
       : o[1] # o[2] /\ o[2] # EmptyId}

\* some identifier is offered two different parents
contested(es) == \E o1, o2 \in offers(es) : o1[2] = o2[2] /\ o1[1] # o2[1]

\* the forest of a builder by identifiers: each identifier's parent identifier
keyOf(tb, n) ==
    IF \E id \in DOMAIN tb.idTable : tb.idTable[id] = n
    THEN CHOOSE id \in DOMAIN tb.idTable : tb.idTable[id] = n
    ELSE EmptyId

parentKeys(tb) ==
    [id \in DOMAIN tb.idTable |->
        IF tb.nodes[tb.idTable[id]].Parent = Nil THEN EmptyId
        ELSE keyOf(tb, tb.nodes[tb.idTable[id]].Parent)]

\* the identifiers that have a parent
childKeys(tb) == {id \in DOMAIN tb.idTable : tb.nodes[tb.idTable[id]].Parent # Nil}

\* the other input orders of a batch
reorderings(es) ==
    {[k \in 1..Len(es) |-> es[p[k]]] : p \in Orderings(1..Len(es))}

----------------------------------------------------------------------------
(* Properties *)

\* C1: after step 1 the Parent links have no cycle: from every node of the
\* identifier table, following Parent reaches a node without parent.
C1_ParentLinksAcyclic ==
    StepOneDone =>
        \A n \in TableNodes : \E k \in 0..Len(nodes) :
            ancestor(nodes, n, k) # Nil /\ nodes[ancestor(nodes, n, k)].Parent = Nil

\* C2: first writer wins.  A link that was applied is never undone or
\* replaced, at most one link is applied per child, no node is its own
\* parent, and a node with a parent occurs exactly once in that parent's
\* Children and in no other Children list (a node without parent in none).
C2_ParentAssignedOnce ==
    /\ \A h \in Links :
           (~h.hadParent /\ h.parent # h.child) => nodes[h.child].Parent = h.parent
    /\ \A x, y \in DOMAIN history :
           (/\ x < y
            /\ history[x].op = "link" /\ history[y].op = "link"
            /\ history[x].child = history[y].child
            /\ history[x].parent # history[x].child)
           => history[y].hadParent
    /\ \A n \in 1..Len(nodes) :
           /\ nodes[n].Parent # n
           /\ \A q \in 1..Len(nodes) :
                  occurrences(nodes[q].Children, n) = (IF nodes[n].Parent = q THEN 1 ELSE 0)

\* C2, its case: a link attempt found the child already owned by another parent
C2_Witness ==
    \E h \in Links :
        h.hadParent /\ h.parent # h.child /\ nodes[h.child].Parent # h.parent

\* C3 as stated: every input order of the batch gives every identifier the
\* same parent.
C3_SameForestAnyOrder ==
    (pc = "step1" /\ done = Len(emails)) =>
        \A es \in reorderings(emails) :
            parentKeys(step1(es, Len(es))) = parentKeys([nodes |-> nodes, idTable |-> idTable])

\* C3 amended: every input order gives the same identifiers and the same
\* roots, and the same parents when no identifier is offered two different
\* parents by the batch.
C3_SameForestUnlessContested ==
    (pc = "step1" /\ done = Len(emails)) =>
        \A es \in reorderings(emails) :
            LET other == step1(es, Len(es))
                this == [nodes |-> nodes, idTable |-> idTable]
            IN  /\ DOMAIN other.idTable = DOMAIN idTable
                /\ childKeys(other) = childKeys(this)
                /\ ~contested(emails) => parentKeys(other) = parentKeys(this)

\* C3, its case: a batch of two different emails that links something and
\* offers no identifier two parents
C3_Witness ==
    /\ pc = "step1" /\ done = Len(emails)
    /\ Len(emails) = 2
    /\ emails[1].MessageID # emails[2].MessageID
    /\ emails[2].InReplyTo = emails[1].MessageID
    /\ emails[1].InReplyTo # EmptyId
    /\ ~contested(emails)

\* C4 as stated: an email without References and In-Reply-To has a root
\* container after step 1, whatever the other emails reference.
C4_NoReferencesIsRoot ==
    StepOneDone =>
        \A v \in Visits :
            (emails[v.email].References = <<>> /\ emails[v.email].InReplyTo = EmptyId)
            => nodes[v.node].Parent = Nil

\* C4 amended: such an email has a root container after step 1 unless the
\* batch offers its identifier a parent (another email lists it in its
\* References after a different identifier, or carries the same MessageID
\* with an In-Reply-To).
C4_NoReferencesIsRootUnlessOffered ==
    StepOneDone =>
        \A v \in Visits :
            (/\ emails[v.email].References = <<>>
             /\ emails[v.email].InReplyTo = EmptyId
             /\ ~\E o \in offers(emails) : o[2] = emails[v.email].MessageID)
            => nodes[v.node].Parent = Nil

\* C4, its case: an email without References and In-Reply-To that another
\* email replies to
C4_Witness ==
    /\ StepOneDone
    /\ \E v \in Visits :
           /\ emails[v.email].References = <<>>
           /\ emails[v.email].InReplyTo = EmptyId
           /\ emails[v.email].MessageID # EmptyId
           /\ ~\E o \in offers(emails) : o[2] = emails[v.email].MessageID
           /\ \E k \in 1..Len(emails) : emails[k].InReplyTo = emails[v.email].MessageID
           /\ nodes[v.node].Children # <<>>

\* C5: after step 1 the container of the last reference of an email is the
\* parent of the email's container, unless that container had a parent
\* already when the email was processed.
C5_LastReferenceIsParent ==
    StepOneDone =>
        \A v \in Visits :
            LET refs == emails[v.email].References IN
            (refs # <<>> /\ ~v.hadParent) =>
                /\ refs[Len(refs)] \in DOMAIN idTable
                /\ nodes[v.node].Parent = idTable[refs[Len(refs)]]

\* C6: for consecutive references ri, ri+1 of a processed email, the
\* container of ri is the parent of the container of ri+1, unless that
\* container had a parent already when the pair was processed or ri = ri+1.
C6_ConsecutiveReferencesLinked ==
    \A k \in 1..done : \A i \in 1..(Len(emails[k].References) - 1) :
        LET refs == emails[k].References IN
        \E h \in Links :
            /\ h.at.site = "References" /\ h.at.email = k /\ h.at.i = i
            /\ h.at.pid = refs[i] /\ h.at.cid = refs[i + 1]
            /\ (h.hadParent \/ refs[i] = refs[i + 1]
                \/ nodes[idTable[refs[i + 1]]].Parent = idTable[refs[i]])

\* C6, its case: one pair of different references linked, another pair
\* refused because its child had a parent
C6_Witness ==
    /\ \E h \in Links :
           h.at.site = "References" /\ h.at.pid # h.at.cid /\ ~h.hadParent
    /\ \E h \in Links :
           h.at.site = "References" /\ h.at.pid # h.at.cid /\ h.hadParent

\* C7: every thread counts the messages at and below one root, its list
\* holds exactly those, and no member is later than its LastDate.
C7_CountAndLastDate ==
    pc \in {"step4", "returned"} =>
        \A x \in DOMAIN threads :
            LET t == threads[x] IN
            /\ t.MessageCount = Len(t.Messages)
            /\ \E y \in DOMAIN rootSet :
                   /\ {t.Messages[j].ID : j \in DOMAIN t.Messages}
                          = messagesBelow(nodes, emails, rootSet[y])
                   /\ t.MessageCount = Cardinality(messagesBelow(nodes, emails, rootSet[y]))
            /\ \A j \in DOMAIN t.Messages : t.Messages[j].Date <= t.LastDate

\* C7, its case: a thread of two messages, the later one not at the root
C7_Witness ==
    /\ pc = "returned"
    /\ \E x \in DOMAIN threads :
           /\ threads[x].MessageCount = 2
           /\ threads[x].Messages[1].Date < threads[x].Messages[2].Date

\* C8: the threads returned are in order of LastDate, newest first.
C8_SortedNewestFirst ==
    pc = "returned" =>
        \A x \in 1..(Len(threads) - 1) : threads[x].LastDate >= threads[x + 1].LastDate

\* C8, its case: two threads of different LastDate are returned
C8_Witness ==
    /\ pc = "returned"
    /\ Len(threads) = 2
    /\ threads[1].LastDate > threads[2].LastDate

\* C9: every thread holds a message; a root with no message at or below it
\* (with or without children) gives no thread, every other root gives one.
C9_NoEmptyThread ==
    pc \in {"step4", "returned"} =>
        /\ \A x \in DOMAIN threads :
               Len(threads[x].Messages) >= 1 /\ threads[x].MessageCount >= 1
        /\ Len(threads) = Cardinality({y \in DOMAIN rootSet :
                                          messagesBelow(nodes, emails, rootSet[y]) # {}})

\* C9, its case: a placeholder root with children and no message below it,
\* and a placeholder root without children, beside a thread
C9_Witness ==
    /\ pc = "returned"
    /\ threads # <<>>
    /\ \E y \in DOMAIN rootSet :
           /\ nodes[rootSet[y]].Message = Nil
           /\ nodes[rootSet[y]].Children # <<>>
           /\ messagesBelow(nodes, emails, rootSet[y]) = {}
    /\ \E y \in DOMAIN rootSet :
           nodes[rootSet[y]].Message = Nil /\ nodes[rootSet[y]].Children = <<>>

\* C10: on an empty folder every call with page >= 1 and page size >= 1
\* returns TotalPages = 1, HasNext = false, HasPrev = false and no message.
C10_EmptyFolderPage ==
    (call.made /\ mailbox = 0 /\ paged.err = "none" /\ call.page >= 1 /\ call.pageSize >= 1)
    => /\ paged.page.TotalPages = 1
       /\ paged.page.HasNext = FALSE
       /\ paged.page.HasPrev = FALSE
       /\ paged.page.Emails = <<>>

\* C11: every successful call with page >= 1 and page size >= 1 reports
\* Page = min(requested page, TotalPages), so Page never exceeds TotalPages.
C11_PageClamped ==
    (call.made /\ paged.err = "none" /\ call.page >= 1 /\ call.pageSize >= 1)
    => /\ paged.page.Page = min(call.page, paged.page.TotalPages)
       /\ paged.page.Page <= paged.page.TotalPages

\* the number of pages of a folder, in unbounded integers
pagesOf(total, pageSize) == (total + pageSize - 1) \div pageSize

\* the sequence numbers the server streams for the requested range
requested == fetchRange(mailbox, paged.range.start, paged.range.end)

\* C12: on a folder of total >= 1 messages, for page size >= 1 and page in
\* 1..TotalPages, the requested range is
\* [max(1, total - page*pageSize + 1), total - (page-1)*pageSize], so the
\* server streams exactly the sequence numbers of that page and no other.
C12_PageRange ==
    (/\ call.made /\ paged.err \in {"none", "fetch"}
     /\ mailbox >= 1 /\ call.pageSize >= 1
     /\ call.page \in 1..pagesOf(mailbox, call.pageSize))
    => LET lo == mailbox - call.page * call.pageSize + 1
           hi == mailbox - (call.page - 1) * call.pageSize
       IN  /\ paged.range = [start |-> IF lo < 1 THEN 1 ELSE lo, end |-> hi]
           /\ {requested[k] : k \in DOMAIN requested}
                  = {q \in 1..mailbox : lo <= q /\ q <= hi}

\* C13: a fetch operation that succeeds returns every streamed message that
\* decodes exactly once and none that fails to decode, whatever messages
\* fail: a decode failure never fails the operation or drops another message.
C13_DecodeFailureDropsOnlyThatMessage ==
    (stream.op # "none" /\ stream.err = "none") =>
        /\ \A m \in {stream.msgs[i] : i \in DOMAIN stream.msgs} :
               occurrences(stream.emails, m) = (IF m \in broken THEN 0 ELSE 1)
        /\ \A j \in DOMAIN stream.emails :
               \E i \in DOMAIN stream.msgs : stream.msgs[i] = stream.emails[j]

\* C13 for one operation: it has streamed three messages or more, exactly
\* one of them failed to decode, and it succeeded
droppedOne(op) ==
    /\ stream.op = op /\ stream.err = "none"
    /\ Len(stream.msgs) >= 3
    /\ Cardinality({i \in DOMAIN stream.msgs : stream.msgs[i] \in broken}) = 1
    /\ Len(stream.emails) = Len(stream.msgs) - 1

\* C13, its case, in FetchMessagesByUIDs (the other two operations reach it
\* as well)
C13_Witness == droppedOne("FetchMessagesByUIDs")

\* the commands of a move, in order
moveOrder == <<"SELECT", "UID COPY", "UID STORE", "EXPUNGE">>

\* the copy command was issued and succeeded
copied == \E i \in DOMAIN requests : requests[i].cmd = "UID COPY" /\ requests[i].ok

\* C14: MoveMessage issues select, copy, flag deleted, expunge in this order
\* and nothing after a command that failed; it returns an error exactly when
\* a command failed; the source folder is untouched unless the copy
\* succeeded; and when a later command fails the copy stays in the target.
C14_MoveOrderNoRollback ==
    /\ Len(requests) <= Len(moveOrder)
    /\ \A i \in DOMAIN requests :
           /\ requests[i].cmd = moveOrder[i]
           /\ i < Len(requests) => requests[i].ok
    /\ (requests # <<>> /\ ~requests[Len(requests)].ok)
           => mpc = "returned" /\ moveErr = stepError(requests[Len(requests)].cmd)
    /\ (mpc = "returned" /\ moveErr = "none")
           => Len(requests) = Len(moveOrder) /\ \A i \in DOMAIN requests : requests[i].ok
    /\ (mpc # "idle" /\ ~copied)
           => source = moveCall.source /\ deleted = moveCall.deleted
    /\ (mpc = "returned" /\ copied /\ moveErr # "none" /\ moveCall.uid \in moveCall.source)
           => moveCall.uid \in target /\ moveCall.uid \in source

\* C14, its case: the expunge failed after the copy and the flag succeeded,
\* so the message is in both folders
C14_Witness ==
    /\ mpc = "returned"
    /\ moveErr = stepError("EXPUNGE")
    /\ copied
    /\ moveCall.uid \in target
    /\ moveCall.uid \in source
    /\ moveCall.uid \in deleted

\* C15: a request to delete or to rename INBOX, Sent, Drafts, Trash or Spam
\* is answered 400 (with the system-folder error when the request is well
\* formed), opens no session, sends no protocol command and leaves the
\* folders on the server as they were.
C15_SystemFolderRejected ==
    (/\ reply.op \in {"delete", "rename"}
     /\ reply.name \in {"INBOX", "Sent", "Drafts", "Trash", "Spam"})
    => /\ reply.answer.status = 400
       /\ reply.answer.error \in
              (IF reply.op = "delete" THEN {"Cannot delete system folder"}
               ELSE IF reply.newName = ""
               THEN {"Invalid request", "Both old name and new name are required"}
               ELSE {"Invalid request", "Cannot rename system folder"})
       /\ reply.answer.sessions = 0
       /\ reply.answer.sent = <<>>
       /\ ~reply.changed
       /\ reply.answer.folders = folders

\* C15, its case: a well-formed request to rename Spam, a folder of the
\* server, to a name that is free
C15_Witness ==
    /\ reply.op = "rename"
    /\ reply.name = "Spam"
    /\ reply.newName = "Old"
    /\ reply.answer.error = "Cannot rename system folder"
    /\ "Spam" \in folders
    /\ "Old" \notin folders

\* the text/plain parts of the message that can be read, in part order
plainParts == {i \in DOMAIN parts : parts[i].type = "text/plain" /\ parts[i].readable}

\* C17: when the loop over the parts has ended and the message holds
\* text/plain parts, the plain-text body is the first of them.
C17_FirstPlainPartWins ==
    (nextPart > Len(parts) /\ plainParts # {}) =>
        \E i \in plainParts :
            /\ \A j \in plainParts : i <= j
            /\ body.Body = parts[i].data

\* the lower-case form of a character and of a string
toLower(ch) ==
    CASE ch = "R" -> "r"
      [] ch = "E" -> "e"
      [] ch = "F" -> "f"
      [] ch = "W" -> "w"
      [] ch = "D" -> "d"
      [] ch = "H" -> "h"
      [] OTHER -> ch

lowered(str) == [i \in DOMAIN str |-> toLower(str[i])]

\* the string starts with re:, fwd: or fw: in some letter case
startsWithReplyPrefix(str) ==
    \E p \in {<<"r", "e", ":">>, <<"f", "w", "d", ":">>, <<"f", "w", ":">>} :
        HasPrefix(lowered(str), p)

\* C18: what cleanSubject returns never starts with Re:, Fwd: or Fw: in any
\* letter case; "Re: Re: Hello" gives "Hello" and "FWD: Hi" gives "Hi".
C18_NoReplyPrefixLeft ==
    cleaned.done =>
        /\ ~startsWithReplyPrefix(cleaned.subject)
        /\ subject = <<"R", "e", ":", " ", "R", "e", ":", " ", "H", "e", "l", "l", "o">>
               => cleaned.subject = <<"H", "e", "l", "l", "o">>
        /\ subject = <<"F", "W", "D", ":", " ", "H", "i">> => cleaned.subject = <<"H", "i">>

\* C19: a thread is unread exactly when one of its messages is without
\* \Seen, and has an attachment exactly when one of its messages has one.
C19_UnreadAndAttachmentFlags ==
    pc \in {"step4", "returned"} =>
        \A x \in DOMAIN threads :
            LET t == threads[x] IN
            /\ t.Unread = (\E j \in DOMAIN t.Messages : "\\Seen" \notin t.Messages[j].Flags)
            /\ t.HasAttachment = (\E j \in DOMAIN t.Messages : t.Messages[j].HasAttachments)

\* C19, its case: a thread of a read message without attachment followed by
\* an unread one with an attachment
C19_Witness ==
    /\ pc = "returned"
    /\ \E x \in DOMAIN threads :
           /\ threads[x].MessageCount = 2
           /\ "\\Seen" \in threads[x].Messages[1].Flags
           /\ ~threads[x].Messages[1].HasAttachments
           /\ "\\Seen" \notin threads[x].Messages[2].Flags
           /\ threads[x].Messages[2].HasAttachments
           /\ threads[x].Unread /\ threads[x].HasAttachment

\* C20: every message FetchThreads has handed to BuildThreads has a
\* MessageID that is not empty, its UID when it came without one; the
\* container of every processed message is entered in the identifier table
\* under that key, and nothing is entered under the empty string.
C20_ThreadingKeyNotEmpty ==
    pc # "fetching" =>
        /\ \A k \in 1..Len(emails) :
               /\ emails[k].MessageID # EmptyId
               /\ emails[k].ID # EmptyId
               /\ emails[k].MessageID = emails[k].ID \/ emails[k].MessageID \in Ids
        /\ \A v \in Visits :
               /\ emails[v.email].MessageID \in DOMAIN idTable
               /\ idTable[emails[v.email].MessageID] = v.node
        /\ EmptyId \notin DOMAIN idTable

\* C20, its case: of two processed messages one came without Message-ID
\* and is keyed by its UID, the other is keyed by its own Message-ID
C20_Witness ==
    /\ pc = "step1" /\ done = 2
    /\ emails[1].MessageID = emails[1].ID
    /\ emails[2].MessageID \in Ids
    /\ idTable[emails[1].ID] # idTable[emails[2].MessageID]

\* the roots a thread may come from: those whose messages are the thread's
rootsOf(t) ==
    {y \in DOMAIN rootSet :
        {t.Messages[j].ID : j \in DOMAIN t.Messages} = messagesBelow(nodes, emails, rootSet[y])}

\* an identifier made from the clock
synthesized(id) == \E now \in 1..MaxClock : id = TimeId(now)

\* C21: the identifier of a thread is the MessageID of its root's message
\* when the root carries one, and is made from the clock only when the root
\* is a placeholder.
C21_ThreadIdFromRoot ==
    pc \in {"step4", "returned"} =>
        \A x \in DOMAIN threads :
            /\ rootsOf(threads[x]) # {}
            /\ \A y \in rootsOf(threads[x]) :
                   LET root == nodes[rootSet[y]] IN
                   /\ root.Message # Nil =>
                          /\ threads[x].ID = emails[root.Message].MessageID
                          /\ ~synthesized(threads[x].ID)
                   /\ root.Message = Nil => synthesized(threads[x].ID)

\* C21, its case: one thread under a root that carries a message, another
\* under a placeholder root
C21_Witness ==
    /\ pc = "returned"
    /\ Len(threads) = 2
    /\ \E x, z \in DOMAIN threads :
           /\ \E y \in rootsOf(threads[x]) : nodes[rootSet[y]].Message # Nil
           /\ \E y \in rootsOf(threads[z]) : nodes[rootSet[y]].Message = Nil


runeCount(str) == Cardinality({i \in DOMAIN str : str[i] # "a9"})

\* the number of bytes that the first n characters of str take
charBytes(str, n) ==
    LET fits == {k \in 0..Len(str) :
                    /\ runeCount(SubSeq(str, 1, k)) <= n
                    /\ (k < Len(str) => str[k + 1] # "a9")}
    IN  CHOOSE k \in fits : \A j \in fits : j <= k

\* the preview of the claim for a normalized text: the text itself when it
\* has at most PreviewLen characters, else its first PreviewLen characters,
\* cut at the last space among them when there is one, and the ellipsis
previewOf(normalized) ==
    LET window == SubSeq(normalized, 1, charBytes(normalized, PreviewLen))
        spaces == {i \in DOMAIN window : window[i] = " "}
        cut == CHOOSE i \in spaces : \A j \in spaces : j <= i
    IN  IF runeCount(normalized) <= PreviewLen THEN normalized
        ELSE IF spaces # {} THEN SubSeq(normalized, 1, cut - 1) \o Ellipsis
        ELSE window \o Ellipsis

\* C23: createPreview returns the whitespace-normalized text unchanged when
\* it has at most PreviewLen (150) characters, and otherwise a prefix of at
\* most that many characters, cut at the last space within them when there
\* is one, followed by "...".
C23_PreviewByCharacters ==
    preview.done => preview.text = previewOf(Join(Fields(text), <<" ">>))

\* the same for text of one-byte characters only
PreviewOfPlainText ==
    (preview.done /\ \A i \in DOMAIN text : text[i] \in {" ", "a"}) =>
        preview.text = previewOf(Join(Fields(text), <<" ">>))

\* the places <<thread, position>> of the result at which the message with
\* UID uid stands
placesOf(uid) ==
    {pl \in UNION {{<<x, j>> : j \in DOMAIN threads[x].Messages} : x \in DOMAIN threads} :
        threads[pl[1]].Messages[pl[2]].ID = uid}

\* C24: for a batch with pairwise distinct, non-empty MessageIDs, every
\* message of the batch stands at exactly one place of the result of
\* BuildThreads: in one thread, once.
C24_EveryMessageOnce ==
    (/\ pc = "returned"
     /\ \A k \in DOMAIN emails : emails[k].MessageID # EmptyId
     /\ \A k, l \in DOMAIN emails : k # l => emails[k].MessageID # emails[l].MessageID)
    => \A k \in DOMAIN emails : Cardinality(placesOf(emails[k].ID)) = 1

\* the files after the handler has saved the threads ts[i], ts[i+1], ... for
\* one user and folder, starting from the files fs
RECURSIVE savedAll(_, _, _)
savedAll(fs, ts, i) ==
    IF i > Len(ts) THEN fs
    ELSE savedAll(SaveThread(fs, StoredThread(ts[i].ID, "alice", "INBOX")), ts, i + 1)

\* C25: the threads of one BuildThreads result have pairwise distinct IDs,
\* also those with a placeholder root, so that saving each of them with
\* SaveThread into an empty storage leaves as many files as there are threads.
C25_ThreadIdsDistinct ==
    pc \in {"step4", "returned"} =>
        /\ \A x, y \in DOMAIN threads : x # y => threads[x].ID # threads[y].ID
        /\ Cardinality(savedAll({}, threads, 1)) = Len(threads)

\* C28: saving a thread for one (user, folder) pair leaves what
\* GetThreadsByFolder returns for every other pair as it was before the call.
C28_OtherPairsUnchanged ==
    lastSave.made =>
        \A userID \in UserIDs, folder \in CachedFolders :
            (userID # lastSave.thread.UserID \/ folder # lastSave.thread.Folder) =>
                GetThreadsByFolder(files, userID, folder)
                    = GetThreadsByFolder(lastSave.before, userID, folder)

\* C26: DeleteMessage and MoveMessage remove from the folder only the message
\* with the given UID: every other message that was in the folder at the
\* call, also one that was flagged \Deleted then, is still in it, and after a
\* call without error the message with the given UID is gone.
C26_OnlyGivenUidRemoved ==
    mpc # "idle" =>
        /\ (moveCall.source \ {moveCall.uid}) \subseteq source
        /\ (mpc = "returned" /\ moveErr = "none") => moveCall.uid \notin source

\* the goroutine is blocked in a send on the messages channel while the
\* caller waits for the completion result, so that neither can go on
blockedSending ==
    /\ gpc = "fetch"
    /\ toStream > 0
    /\ Len(messages.buf) = fetchOp.cap
    /\ cpc = "done"
    /\ completion = <<>>

\* C27: in every fetch operation, for any number of streamed messages and
\* any interleaving, the fetching goroutine is never blocked sending on the
\* messages channel while the caller waits for the completion result.
C27_NeverBlockedSending == ~blockedSending

\* the same for the three operations that read the channel until it is closed
RangeLoopNeverBlocked ==
    fetchOp.op # "FetchSingleMessage" => ~blockedSending

\* C29: a Get that is called after a Set has returned, and that returns
\* while the entry of that Set is neither expired nor overwritten by a later
\* Set, returns the value of that Set.
C29_GetReturnsLastSet ==
    \A g \in Getters :
        (/\ getters[g].pc = "returned"
         /\ getters[g].after > 0
         /\ getters[g].sets = getters[g].after
         /\ ~expired(setLog[getters[g].after], getters[g].at))
        => getters[g].result = setLog[getters[g].after].Value

\* the subscribers that are in the map of some user
inMap == UNION {subscribers[u] : u \in NotifyUsers}

\* C30: the NotificationHandler never sends on a closed channel: no send has
\* hit a closed channel, every channel that a running SendNotification is
\* still to send to is open, and a closed channel is in no subscribers map.
C30_NoSendOnClosedChannel ==
    /\ ~panicked
    /\ \A n \in Senders : \A c \in senders[n].pending : chans[c].state = "open"
    /\ \A c \in Subscribers : chans[c].state = "closed" => c \notin inMap

\* C30, its case: a SendNotification has delivered to one subscriber of a
\* user while another subscriber of that user, which was in the map before,
\* has disconnected and its channel is closed
C30_Witness ==
    \E n \in Senders, c, d \in Subscribers :
        /\ c # d
        /\ senders[n].pc = "sending"
        /\ senders[n].pending = {}
        /\ conns[c].user = senders[n].user
        /\ conns[d].user = senders[n].user
        /\ chans[c].state = "open" /\ chans[c].buf > 0
        /\ chans[d].state = "closed"

====
